---- MODULE Spec2Model ----
(***************************************************************************)
(* Model of the SDLC requirement traceability backend: the RBAC middleware *)
(* (auth.middleware), the audit log service (auditlog.service), the        *)
(* integration service (integration.service) and the traceability routes   *)
(* (traceability.routes) as mounted by app.ts.                             *)
(*                                                                         *)
(* Text values (usernames, JSON payloads, CSV rows) are sequences of       *)
(* symbols.  Quote, Comma and Newline are the characters that matter to    *)
(* the CSV export; every other symbol stands for a run of characters that  *)
(* contains none of them.                                                  *)
(***************************************************************************)
EXTENDS Integers, Sequences, FiniteSets, TLC

VARIABLES requirements, auditStore, now, nreq, last, fanout, inflight

vars == <<requirements, auditStore, now, nreq, last, fanout, inflight>>

-----------------------------------------------------------------------------
(* Bounds of the model *)

\* requests served by the router in one behaviour
MaxRequests == 2

\* requests passed through the authorize middleware in one behaviour
MaxAuthRequests == 1

\* simultaneous deviations from the nominal environment during one request
MaxFaults == 1

\* size of a required-permission list handed to authorize
MaxRequired == 2

\* length of the identifier list handed to one integration method
MaxIds == 2

\* requests served before the state in which the audit fail-open comparison
\* is made
MaxProbeDepth == 1

-----------------------------------------------------------------------------
(* Text helpers *)

Quote == "\""

Comma == ","

Newline == "\n"

\* JavaScript undefined / SQL NULL for an optional text or list value
Undefined == <<"#undefined">>

RECURSIVE Join(_, _)
Join(ss, sep) ==
  IF ss = <<>> THEN <<>>
  ELSE IF Len(ss) = 1 THEN ss[1]
  ELSE ss[1] \o sep \o Join(Tail(ss), sep)

Range(s) == {s[i] : i \in 1..Len(s)}

\* x || y on optional text: undefined and '' are both falsy
OrElse(x, y) == IF x = Undefined \/ x = <<>> THEN y ELSE x

-----------------------------------------------------------------------------
(* auth.middleware: roles and the permission table *)

UserRole == {"admin", "compliance", "stakeholder", "developer", "tester", "viewer"}

\* variant: the administrator row enumerates the known tokens instead of
\* holding the wildcard
rolePermissions_AdminEnumerated ==
  [r \in UserRole |->
     CASE r = "admin"       -> <<"view", "export", "audit", "report", "link", "flag">>
       [] r = "compliance"  -> <<"view", "export", "audit">>
       [] r = "stakeholder" -> <<"view", "report">>
       [] r = "developer"   -> <<"view", "link", "report">>
       [] r = "tester"      -> <<"view", "report", "flag">>
       [] r = "viewer"      -> <<"view">>]

rolePermissions ==
  [r \in UserRole |->
     CASE r = "admin"       -> <<"*">>
       [] r = "compliance"  -> <<"view", "export", "audit">>
       [] r = "stakeholder" -> <<"view", "report">>
       [] r = "developer"   -> <<"view", "link", "report">>
       [] r = "tester"      -> <<"view", "report", "flag">>
       [] r = "viewer"      -> <<"view">>]

\* names that the object literal rolePermissions inherits from
\* Object.prototype; each is a function or an object, none is an array
ObjectPrototype ==
  {"constructor", "toString", "valueOf", "hasOwnProperty", "__proto__"}

\* rolePermissions[user.role] finds an inherited member: the value is truthy,
\* so `|| []` keeps it, and it has no includes() to call
InheritedMember(role) ==
  role \notin DOMAIN rolePermissions /\ role \in ObjectPrototype

\* rolePermissions[user.role] || [], for a role that is an own key of the
\* table or no property of it at all
PermissionsOf(role) ==
  IF role \in DOMAIN rolePermissions THEN rolePermissions[role] ELSE <<>>

Includes(arr, x) == \E i \in 1..Len(arr) : arr[i] = x

\* variant: some() in place of every()
HasPermission_Some(permissions, requiredPermissions) ==
  \E i \in 1..Len(requiredPermissions) : Includes(permissions, requiredPermissions[i])

\* requiredPermissions.every((perm) => permissions.includes(perm))
HasPermission(permissions, requiredPermissions) ==
  \A i \in 1..Len(requiredPermissions) : Includes(permissions, requiredPermissions[i])

-----------------------------------------------------------------------------
(* JSON.stringify of the audit details payloads *)

JStr(text)  == [t |-> "str",   s |-> text, n |-> 0, b |-> FALSE, arr |-> <<>>]

JNum(k)     == [t |-> "num",   s |-> <<>>, n |-> k, b |-> FALSE, arr |-> <<>>]

JBool(v)    == [t |-> "bool",  s |-> <<>>, n |-> 0, b |-> v,     arr |-> <<>>]

JArr(ids)   == [t |-> "arr",   s |-> <<>>, n |-> 0, b |-> FALSE, arr |-> ids]

JUndef      == [t |-> "undef", s |-> <<>>, n |-> 0, b |-> FALSE, arr |-> <<>>]

\* an identifier list of a request body: absent, or an array of strings
JList(ids) == IF ids = Undefined THEN JUndef ELSE JArr(ids)

RECURSIVE JsonEscape(_)
JsonEscape(text) ==
  IF text = <<>> THEN <<>>
  ELSE (IF Head(text) = Quote THEN <<"\\", Quote>> ELSE <<Head(text)>>)
       \o JsonEscape(Tail(text))

JsonString(text) == <<Quote>> \o JsonEscape(text) \o <<Quote>>

JsonValue(v) ==
  CASE v.t = "str"  -> JsonString(v.s)
    [] v.t = "num"  -> <<ToString(v.n)>>
    [] v.t = "bool" -> IF v.b THEN <<"true">> ELSE <<"false">>
    [] v.t = "arr"  -> <<"[">>
                       \o Join([i \in 1..Len(v.arr) |-> JsonString(<<v.arr[i]>>)], <<Comma>>)
                       \o <<"]">>
    [] OTHER        -> <<>>

\* properties whose value is undefined are left out
JsonStringify(obj) ==
  LET present == SelectSeq(obj, LAMBDA p : p.v.t # "undef")
  IN  <<"{">>
      \o Join([i \in 1..Len(present) |->
                 JsonString(<<present[i].k>>) \o <<":">> \o JsonValue(present[i].v)],
              <<Comma>>)
      \o <<"}">>

-----------------------------------------------------------------------------
(* Execution context of one request: the audit table, the database clock   *)
(* and the ordered trace of what the request did.                          *)

\* req.user when Passport attached none
NoUser == [username |-> Undefined, role |-> "#undefined"]

NoIp == "#undefined"

Ev(kind, tag, who) == [e |-> kind, a |-> tag, u |-> who]

Emit(ctx, ev) == [ctx EXCEPT !.events = Append(@, ev)]

\* Winston logger call: the line reaches the diagnostic stream unless the
\* stream is down; the call itself never throws
LoggerWrite(ctx, level, msg, who, diagOk) ==
  IF diagOk THEN Emit(ctx, Ev("logger." \o level, msg, who)) ELSE ctx

\* variant: the row is saved under a fixed id, so a save after the first one
\* updates the row that is there
AuditRepoSave_FixedId(ctx, row) ==
  LET entry == [id        |-> 1,
                action    |-> row.action,
                username  |-> row.username,
                role      |-> row.role,
                details   |-> row.details,
                ip        |-> row.ip,
                timestamp |-> ctx.clock + 1]
  IN  Emit([ctx EXCEPT !.store = <<entry>>, !.clock = @ + 1],
           Ev("auditRepo.save", row.action, row.username))

\* auditRepo.save: the row gets a generated id and the creation timestamp of
\* the database clock, which has advanced since the previous row
AuditRepoSave(ctx, row) ==
  LET entry == [id        |-> Len(ctx.store) + 1,
                action    |-> row.action,
                username  |-> row.username,
                role      |-> row.role,
                details   |-> row.details,
                ip        |-> row.ip,
                timestamp |-> ctx.clock + 1]
  IN  Emit([ctx EXCEPT !.store = Append(@, entry), !.clock = @ + 1],
           Ev("auditRepo.save", row.action, row.username))

AuditRepoSaveFailed(ctx, row) ==
  Emit(ctx, Ev("auditRepo.save.failed", row.action, row.username))

\* a call that passes no details object
NoDetails == <<>>

\* details ? JSON.stringify(details) : undefined
DetailsText(details) ==
  IF details = NoDetails THEN Undefined ELSE JsonStringify(details)

logAccess(ctx, user, action, details, ip, env) ==
  LET row == [action |-> action, username |-> user.username, role |-> user.role,
              details |-> DetailsText(details), ip |-> ip]
  IN  IF env.auditOk
      THEN LoggerWrite(AuditRepoSave(ctx, row), "info",
                       "AuditLog: Access - " \o action, user.username, env.diagOk)
      ELSE LoggerWrite(AuditRepoSaveFailed(ctx, row), "error",
                       "AuditLogService.logAccess error:", Undefined, env.diagOk)

logModification(ctx, user, action, details, ip, env) ==
  LET row == [action |-> action, username |-> user.username, role |-> user.role,
              details |-> DetailsText(details), ip |-> ip]
  IN  IF env.auditOk
      THEN LoggerWrite(AuditRepoSave(ctx, row), "info",
                       "AuditLog: Modification - " \o action, user.username, env.diagOk)
      ELSE LoggerWrite(AuditRepoSaveFailed(ctx, row), "error",
                       "AuditLogService.logModification error:", Undefined, env.diagOk)

\* variant: the caller's identity is not passed on to the row
logUnauthorizedAccess_Anonymous(ctx, ip, url, username, role, env) ==
  LET row == [action |-> "UNAUTHORIZED_ACCESS", username |-> Undefined, role |-> "#undefined",
              details |-> JsonStringify(<<[k |-> "url", v |-> JStr(url)]>>), ip |-> ip]
  IN  IF env.auditOk
      THEN LoggerWrite(AuditRepoSave(ctx, row), "warn",
                       "AuditLog: Unauthorized access attempt", username, env.diagOk)
      ELSE LoggerWrite(AuditRepoSaveFailed(ctx, row), "error",
                       "AuditLogService.logUnauthorizedAccess error:", Undefined, env.diagOk)

logUnauthorizedAccess(ctx, ip, url, username, role, env) ==
  LET row == [action |-> "UNAUTHORIZED_ACCESS", username |-> username, role |-> role,
              details |-> JsonStringify(<<[k |-> "url", v |-> JStr(url)]>>), ip |-> ip]
  IN  IF env.auditOk
      THEN LoggerWrite(AuditRepoSave(ctx, row), "warn",
                       "AuditLog: Unauthorized access attempt", username, env.diagOk)
      ELSE LoggerWrite(AuditRepoSaveFailed(ctx, row), "error",
                       "AuditLogService.logUnauthorizedAccess error:", Undefined, env.diagOk)

\* res.status(code).json(body)
Respond(ctx, code, body) ==
  [Emit(ctx, Ev("res", ToString(code), Undefined)) EXCEPT !.status = code, !.body = body]

-----------------------------------------------------------------------------
(* auth.middleware: ensureAuthenticated, authorize, authMiddleware.        *)
(* A middleware either answers the request or calls next(), after which    *)
(* Express runs the next handler of the route.                             *)

CallNext(ctx) == Emit(ctx, Ev("next()", "", Undefined))

CalledNext(ctx) == \E i \in 1..Len(ctx.events) : ctx.events[i].e = "next()"

\* the audit call is not awaited: the 401 is written before its save settles
ensureAuthenticated(ctx, req, env) ==
  IF req.user # NoUser
  THEN CallNext(ctx)
  ELSE LET c1 == LoggerWrite(ctx, "warn", "Unauthorized access attempt", Undefined, env.diagOk)
           c2 == Respond(c1, 401, "Unauthorized")
       IN  logUnauthorizedAccess(c2, req.ip, req.url, Undefined, "#undefined", env)

\* variant: a route that requires nothing is let through before the caller
\* is looked at
authorize_OpenWhenNothingRequired(requiredPermissions, ctx, req, env) ==
  IF requiredPermissions = <<>>
  THEN CallNext(ctx)
  ELSE IF req.user = NoUser
  THEN LET c1 == LoggerWrite(ctx, "warn", "Access denied: No user in request", Undefined, env.diagOk)
           c2 == Respond(c1, 401, "Unauthorized")
       IN  logUnauthorizedAccess(c2, req.ip, req.url, Undefined, "#undefined", env)
  ELSE IF InheritedMember(req.user.role)
  THEN \* permissions.includes is not a function: the TypeError is caught
       Respond(LoggerWrite(ctx, "error", "RBAC middleware error:", Undefined, env.diagOk),
               500, "Internal server error")
  ELSE LET permissions == PermissionsOf(req.user.role)
       IN  IF Includes(permissions, "*")
           THEN CallNext(ctx)
           ELSE IF ~HasPermission(permissions, requiredPermissions)
           THEN LET c1 == LoggerWrite(ctx, "warn", "Access denied: Insufficient permissions",
                                      req.user.username, env.diagOk)
                    c2 == logUnauthorizedAccess(c1, req.ip, req.url,
                                                req.user.username, req.user.role, env)
                IN  Respond(c2, 403, "Forbidden: Insufficient permissions")
           ELSE CallNext(ctx)

authorize(requiredPermissions, ctx, req, env) ==
  IF req.user = NoUser
  THEN LET c1 == LoggerWrite(ctx, "warn", "Access denied: No user in request", Undefined, env.diagOk)
           c2 == Respond(c1, 401, "Unauthorized")
       IN  logUnauthorizedAccess(c2, req.ip, req.url, Undefined, "#undefined", env)
  ELSE IF InheritedMember(req.user.role)
  THEN \* permissions.includes is not a function: the TypeError is caught
       Respond(LoggerWrite(ctx, "error", "RBAC middleware error:", Undefined, env.diagOk),
               500, "Internal server error")
  ELSE LET permissions == PermissionsOf(req.user.role)
       IN  IF Includes(permissions, "*")
           THEN CallNext(ctx)
           ELSE IF ~HasPermission(permissions, requiredPermissions)
           THEN LET c1 == LoggerWrite(ctx, "warn", "Access denied: Insufficient permissions",
                                      req.user.username, env.diagOk)
                    c2 == logUnauthorizedAccess(c1, req.ip, req.url,
                                                req.user.username, req.user.role, env)
                IN  Respond(c2, 403, "Forbidden: Insufficient permissions")
           ELSE CallNext(ctx)

authMiddleware(ctx, req, env) == ensureAuthenticated(ctx, req, env)

-----------------------------------------------------------------------------
(* integration.service: one outbound GET per identifier, joined by         *)
(* Promise.all; any rejection is caught and turned into the empty list.    *)
(* env.down is the set of <<method, id>> whose GET rejects, env.result the *)
(* Jenkins build result per id, env.rand the ids for which the test-result *)
(* placeholder draws Math.random() > 0.8.                                  *)

Out(ctx, list) == [c |-> ctx, out |-> list]

RECURSIVE EmitFetches(_, _, _)
EmitFetches(ctx, method, ids) ==
  IF ids = <<>> THEN ctx
  ELSE EmitFetches(Emit(ctx, Ev("GET", method, <<Head(ids)>>)), method, Tail(ids))

\* the record each method builds from the response of one GET
Normalize(method, id, env) ==
  CASE method \in {"getUserStories", "getTasks"} -> [id |-> id, status |-> "jira"]
    [] method = "getCodeCommits"      -> [id |-> id, status |-> "github"]
    [] method = "getDeployments"      -> [id |-> id, status |-> env.result[id]]
    [] method = "getDeploymentStatus" ->
         [id |-> id,
          status |-> IF env.result[id] = "FAILURE" THEN "rollback" ELSE env.result[id]]

\* try { if (!ids.length) return []; results = await Promise.all(ids.map(GET)) } catch { return [] }
FanOut(ctx, method, ids, env) ==
  IF Len(ids) = 0 THEN Out(ctx, <<>>)
  ELSE LET c1 == EmitFetches(ctx, method, ids)
       IN  IF \E i \in 1..Len(ids) : <<method, ids[i]>> \in env.down
           THEN Out(LoggerWrite(c1, "error", "IntegrationService." \o method \o " error:",
                                Undefined, env.diagOk), <<>>)
           ELSE Out(c1, [i \in 1..Len(ids) |-> Normalize(method, ids[i], env)])
\* One call of a fan-out method, step by step. ids.map issues every GET
\* before the first await returns; the responses then arrive in any order.
\* Promise.all keeps one slot per index and resolves when the last slot is
\* filled, or rejects with the first rejection that arrives; the method
\* returns at that moment and responses that arrive later are dropped.
NoRecord == [id |-> "#pending", status |-> "#pending"]

NoCall == [phase |-> "idle", method |-> "", ids |-> <<>>, env |-> <<>>, pending |-> {},
           arrived |-> <<>>, slots |-> <<>>, out |-> <<>>, events |-> <<>>]

\* try { if (!ids.length) return []; Promise.all(ids.map(async (id) => { await GET ...
StartFanOut(method, ids, env) ==
  IF Len(ids) = 0
  THEN [NoCall EXCEPT !.phase = "returned", !.method = method, !.env = env]
  ELSE EmitFetches([NoCall EXCEPT !.phase = "awaiting", !.method = method, !.ids = ids,
                                  !.env = env, !.pending = 1..Len(ids),
                                  !.slots = [i \in 1..Len(ids) |-> NoRecord]],
                   method, ids)

\* variant: a rejection resolves the call with the records that have arrived
Settle_KeepsArrived(call, i) ==
  LET c1 == [call EXCEPT !.pending = @ \ {i}, !.arrived = Append(@, i)]
  IN  IF call.phase = "returned" THEN c1
      ELSE IF <<call.method, call.ids[i]>> \in call.env.down
      THEN [c1 EXCEPT !.phase = "returned",
                      !.out = SelectSeq(call.slots, LAMBDA r : r # NoRecord)]
      ELSE LET c2 == [c1 EXCEPT !.slots[i] = Normalize(call.method, call.ids[i], call.env)]
           IN  IF c2.pending = {} THEN [c2 EXCEPT !.phase = "returned", !.out = c2.slots]
               ELSE c2

\* the response of the GET of index i arrives
Settle(call, i) ==
  LET c1 == [call EXCEPT !.pending = @ \ {i}, !.arrived = Append(@, i)]
  IN  IF call.phase = "returned" THEN c1
      ELSE IF <<call.method, call.ids[i]>> \in call.env.down
      THEN [LoggerWrite(c1, "error", "IntegrationService." \o call.method \o " error:",
                        Undefined, call.env.diagOk)
              EXCEPT !.phase = "returned", !.out = <<>>]
      ELSE LET c2 == [c1 EXCEPT !.slots[i] = Normalize(call.method, call.ids[i], call.env)]
           IN  IF c2.pending = {} THEN [c2 EXCEPT !.phase = "returned", !.out = c2.slots]
               ELSE c2
getUserStories(ctx, ids, env) == FanOut(ctx, "getUserStories", ids, env)

getTasks(ctx, ids, env) == FanOut(ctx, "getTasks", ids, env)

\* placeholder: no outbound call
getTestCases(ctx, ids, env) ==
  IF Len(ids) = 0 THEN Out(ctx, <<>>)
  ELSE Out(ctx, [i \in 1..Len(ids) |-> [id |-> ids[i], status |-> "unknown"]])

getCodeCommits(ctx, hashes, env) == FanOut(ctx, "getCodeCommits", hashes, env)

getDeployments(ctx, ids, env) == FanOut(ctx, "getDeployments", ids, env)

\* placeholder: no outbound call, status drawn at random
getTestResults(ctx, ids, env) ==
  IF Len(ids) = 0 THEN Out(ctx, <<>>)
  ELSE Out(ctx, [i \in 1..Len(ids) |->
                   [id |-> ids[i],
                    status |-> IF ids[i] \in env.rand THEN "failed" ELSE "passed"]])

getDeploymentStatus(ctx, ids, env) == FanOut(ctx, "getDeploymentStatus", ids, env)

-----------------------------------------------------------------------------
(* traceability.routes: the five handlers of traceabilityRouter.           *)
(* env.findOk / env.saveOk say whether requirementRepo reads / the save    *)
(* succeed.                                                                *)

\* rows of the requirements table, in the order find() returns them
ReqOrder == <<"r1", "r2">>

KindFields == <<"userStoryIds", "taskIds", "testCaseIds", "codeCommitIds", "deploymentIds">>

\* list?.length is truthy
HasLength(list) == list # Undefined /\ Len(list) > 0

\* list || []
IdList(list) == IF list = Undefined THEN <<>> ELSE list

\* Array.from(new Set(arr)): first occurrences, in order
RECURSIVE Dedup(_)
Dedup(arr) ==
  IF arr = <<>> THEN <<>>
  ELSE LET front == Dedup(SubSeq(arr, 1, Len(arr) - 1))
           x     == arr[Len(arr)]
       IN  IF Includes(front, x) THEN front ELSE Append(front, x)
\* variant: the submitted identifiers are appended as they come
Merge_Appends(existing, ids) ==
  IF ids = Undefined THEN existing ELSE IdList(existing) \o ids
\* if (ids) requirement.f = Array.from(new Set([...(requirement.f || []), ...ids]))
Merge(existing, ids) ==
  IF ids = Undefined THEN existing ELSE Dedup(IdList(existing) \o ids)

\* next(error) reaches the centralized error handler, which answers 500
errorHandler(ctx) ==
  Respond(Emit(ctx, Ev("next(error)", "", Undefined)), 500, "Internal server error")

HandlerCatch(ctx, msg, env) ==
  errorHandler(LoggerWrite(ctx, "error", msg, Undefined, env.diagOk))
\* variant: a list with nothing in it still costs one GET of the source
Maybe_ProbesSource(ctx, list, env, method) ==
  IF ~HasLength(list) THEN Out(Emit(ctx, Ev("GET", method, <<>>)), <<>>)
  ELSE CASE method = "getUserStories"      -> getUserStories(ctx, list, env)
         [] method = "getTasks"            -> getTasks(ctx, list, env)
         [] method = "getTestCases"        -> getTestCases(ctx, list, env)
         [] method = "getCodeCommits"      -> getCodeCommits(ctx, list, env)
         [] method = "getDeployments"      -> getDeployments(ctx, list, env)
         [] method = "getTestResults"      -> getTestResults(ctx, list, env)
         [] method = "getDeploymentStatus" -> getDeploymentStatus(ctx, list, env)
\* list?.length ? await integrationService.method(list) : []
Maybe(ctx, list, env, method) ==
  IF ~HasLength(list) THEN Out(ctx, <<>>)
  ELSE CASE method = "getUserStories"      -> getUserStories(ctx, list, env)
         [] method = "getTasks"            -> getTasks(ctx, list, env)
         [] method = "getTestCases"        -> getTestCases(ctx, list, env)
         [] method = "getCodeCommits"      -> getCodeCommits(ctx, list, env)
         [] method = "getDeployments"      -> getDeployments(ctx, list, env)
         [] method = "getTestResults"      -> getTestResults(ctx, list, env)
         [] method = "getDeploymentStatus" -> getDeploymentStatus(ctx, list, env)
\* variant: the five fetches share one catch, so a kind that fails empties
\* the lists of all kinds
Enrich_SharedCatch(ctx, reqmt, env) ==
  LET s == Maybe(ctx, reqmt.userStoryIds, env, "getUserStories")
      t == Maybe(s.c, reqmt.taskIds, env, "getTasks")
      x == Maybe(t.c, reqmt.testCaseIds, env, "getTestCases")
      g == Maybe(x.c, reqmt.codeCommitIds, env, "getCodeCommits")
      d == Maybe(g.c, reqmt.deploymentIds, env, "getDeployments")
      failed == \E i \in 1..Len(d.c.events) :
                   /\ d.c.events[i].e = "GET"
                   /\ <<d.c.events[i].a, d.c.events[i].u[1]>> \in env.down
  IN  IF failed
      THEN Out(d.c, [requirement |-> reqmt, userStories |-> <<>>, tasks |-> <<>>,
                     testCases |-> <<>>, codeCommits |-> <<>>, deployments |-> <<>>])
      ELSE Out(d.c, [requirement |-> reqmt, userStories |-> s.out, tasks |-> t.out,
                     testCases |-> x.out, codeCommits |-> g.out, deployments |-> d.out])
Enrich(ctx, reqmt, env) ==
  LET s == Maybe(ctx, reqmt.userStoryIds, env, "getUserStories")
      t == Maybe(s.c, reqmt.taskIds, env, "getTasks")
      x == Maybe(t.c, reqmt.testCaseIds, env, "getTestCases")
      g == Maybe(x.c, reqmt.codeCommitIds, env, "getCodeCommits")
      d == Maybe(g.c, reqmt.deploymentIds, env, "getDeployments")
  IN  Out(d.c, [requirement |-> reqmt, userStories |-> s.out, tasks |-> t.out,
                testCases |-> x.out, codeCommits |-> g.out, deployments |-> d.out])

RECURSIVE EnrichAll(_, _, _)
EnrichAll(ctx, reqmts, env) ==
  IF reqmts = <<>> THEN Out(ctx, <<>>)
  ELSE LET h == Enrich(ctx, Head(reqmts), env)
           r == EnrichAll(h.c, Tail(reqmts), env)
       IN  Out(r.c, <<h.out>> \o r.out)

FindAll(ctx) == [i \in 1..Len(ReqOrder) |-> ctx.reqs[ReqOrder[i]]]
\* variant: the matrix is sent before the access is audited
matrixHandler_RespondsFirst(ctx, req, env) ==
  IF ~env.findOk
  THEN HandlerCatch(Emit(ctx, Ev("requirementRepo.find.failed", "", Undefined)),
                    "Error fetching traceability matrix:", env)
  ELSE LET c0 == Emit(ctx, Ev("requirementRepo.find", "", Undefined))
           e  == EnrichAll(c0, FindAll(ctx), env)
           c1 == Respond(e.c, 200, e.out)
       IN  logAccess(c1, req.user, "GET_TRACEABILITY_MATRIX",
                     <<[k |-> "count", v |-> JNum(Len(ReqOrder))]>>, NoIp, env)
matrixHandler(ctx, req, env) ==
  IF ~env.findOk
  THEN HandlerCatch(Emit(ctx, Ev("requirementRepo.find.failed", "", Undefined)),
                    "Error fetching traceability matrix:", env)
  ELSE LET c0 == Emit(ctx, Ev("requirementRepo.find", "", Undefined))
           e  == EnrichAll(c0, FindAll(ctx), env)
           c1 == logAccess(e.c, req.user, "GET_TRACEABILITY_MATRIX",
                           <<[k |-> "count", v |-> JNum(Len(ReqOrder))]>>, NoIp, env)
       IN  Respond(c1, 200, e.out)
\* variant: an id that does not resolve is answered 404 without an audit entry
requirementHandler_SilentNotFound(ctx, req, env) ==
  IF ~env.findOk
  THEN HandlerCatch(Emit(ctx, Ev("requirementRepo.findOne.failed", req.id, Undefined)),
                    "Error fetching requirement traceability:", env)
  ELSE LET c0 == Emit(ctx, Ev("requirementRepo.findOne", req.id, Undefined))
       IN  IF req.id \notin DOMAIN ctx.reqs
           THEN Respond(c0, 404, "Requirement not found")
           ELSE LET e  == Enrich(c0, ctx.reqs[req.id], env)
                    c1 == logAccess(e.c, req.user, "GET_REQUIREMENT_TRACEABILITY",
                                    <<[k |-> "id", v |-> JStr(<<req.id>>)]>>, NoIp, env)
                IN  Respond(c1, 200, e.out)
requirementHandler(ctx, req, env) ==
  IF ~env.findOk
  THEN HandlerCatch(Emit(ctx, Ev("requirementRepo.findOne.failed", req.id, Undefined)),
                    "Error fetching requirement traceability:", env)
  ELSE LET c0 == Emit(ctx, Ev("requirementRepo.findOne", req.id, Undefined))
       IN  IF req.id \notin DOMAIN ctx.reqs
           THEN Respond(logAccess(c0, req.user, "GET_REQUIREMENT_TRACEABILITY_NOT_FOUND",
                                  <<[k |-> "id", v |-> JStr(<<req.id>>)]>>, NoIp, env),
                        404, "Requirement not found")
           ELSE LET e  == Enrich(c0, ctx.reqs[req.id], env)
                    c1 == logAccess(e.c, req.user, "GET_REQUIREMENT_TRACEABILITY",
                                    <<[k |-> "id", v |-> JStr(<<req.id>>)]>>, NoIp, env)
                IN  Respond(c1, 200, e.out)

\* variant: a rejected audit write escapes logModification and lands in the
\* handler's catch
SaveThen_AuditThrows(ctx, requirement, req, env, msg, action, details) ==
  IF ~env.saveOk
  THEN HandlerCatch(Emit(ctx, Ev("requirementRepo.save.failed", req.id, Undefined)), msg, env)
  ELSE LET c1 == Emit([ctx EXCEPT !.reqs[req.id] = requirement],
                      Ev("requirementRepo.save", req.id, Undefined))
           c2 == logModification(c1, req.user, action, details, NoIp, env)
       IN  IF env.auditOk THEN Respond(c2, 200, requirement) ELSE HandlerCatch(c2, msg, env)
\* variant: the modification is audited before the save is attempted
SaveThen_AuditsFirst(ctx, requirement, req, env, msg, action, details) ==
  LET c0 == logModification(ctx, req.user, action, details, NoIp, env)
  IN  IF ~env.saveOk
      THEN HandlerCatch(Emit(c0, Ev("requirementRepo.save.failed", req.id, Undefined)), msg, env)
      ELSE Respond(Emit([c0 EXCEPT !.reqs[req.id] = requirement],
                        Ev("requirementRepo.save", req.id, Undefined)),
                   200, requirement)
\* requirementRepo.save followed by the rest of a mutating handler
SaveThen(ctx, requirement, req, env, msg, action, details) ==
  IF ~env.saveOk
  THEN HandlerCatch(Emit(ctx, Ev("requirementRepo.save.failed", req.id, Undefined)), msg, env)
  ELSE LET c1 == Emit([ctx EXCEPT !.reqs[req.id] = requirement],
                      Ev("requirementRepo.save", req.id, Undefined))
           c2 == logModification(c1, req.user, action, details, NoIp, env)
       IN  Respond(c2, 200, requirement)

\* variant: a kind that is not supplied is merged as an empty list
MergeLists_AllKinds(old, req) ==
  [old EXCEPT !.userStoryIds  = Merge(@, IdList(req.body.userStoryIds)),
              !.taskIds       = Merge(@, IdList(req.body.taskIds)),
              !.testCaseIds   = Merge(@, IdList(req.body.testCaseIds)),
              !.codeCommitIds = Merge(@, IdList(req.body.codeCommitIds)),
              !.deploymentIds = Merge(@, IdList(req.body.deploymentIds)),
              !.updatedBy     = OrElse(req.user.username, <<"system">>)]

\* the loaded requirement after the handler has merged the submitted lists
MergeLists(old, req) ==
  [old EXCEPT !.userStoryIds  = Merge(@, req.body.userStoryIds),
              !.taskIds       = Merge(@, req.body.taskIds),
              !.testCaseIds   = Merge(@, req.body.testCaseIds),
              !.codeCommitIds = Merge(@, req.body.codeCommitIds),
              !.deploymentIds = Merge(@, req.body.deploymentIds),
              !.updatedBy     = OrElse(req.user.username, <<"system">>)]

\* variant: the save adds the lists of the entity to the lists of the row
RepoSave_UnionsLists(reqs, requirement) ==
  [reqs EXCEPT ![requirement.id] =
     [requirement EXCEPT !.userStoryIds  = Merge(reqs[requirement.id].userStoryIds, IdList(@)),
                         !.deploymentIds = Merge(reqs[requirement.id].deploymentIds, IdList(@))]]

\* requirementRepo.save(requirement): the row takes every column of the entity
RepoSave(reqs, requirement) == [reqs EXCEPT ![requirement.id] = requirement]
\* variant: the audit entry lists the identifiers that were not linked before
linkHandler_AuditsAdded(ctx, req, env) ==
  IF ~env.findOk
  THEN HandlerCatch(Emit(ctx, Ev("requirementRepo.findOne.failed", req.id, Undefined)),
                    "Error linking artifacts to requirement:", env)
  ELSE LET c0 == Emit(ctx, Ev("requirementRepo.findOne", req.id, Undefined))
       IN  IF req.id \notin DOMAIN ctx.reqs
           THEN Respond(logModification(c0, req.user, "LINK_ARTIFACTS_REQUIREMENT_NOT_FOUND",
                                        <<[k |-> "id", v |-> JStr(<<req.id>>)]>>, NoIp, env),
                        404, "Requirement not found")
           ELSE LET old == ctx.reqs[req.id]
                    added(f) ==
                      IF req.body[f] = Undefined THEN Undefined
                      ELSE SelectSeq(req.body[f], LAMBDA x : ~Includes(IdList(old[f]), x))
                IN  SaveThen(c0, MergeLists(old, req), req, env,
                             "Error linking artifacts to requirement:",
                             "LINK_ARTIFACTS_TO_REQUIREMENT",
                             <<[k |-> "id", v |-> JStr(<<req.id>>)]>>
                             \o [i \in 1..Len(KindFields) |->
                                   [k |-> KindFields[i], v |-> JList(added(KindFields[i]))]])
linkHandler(ctx, req, env) ==
  IF ~env.findOk
  THEN HandlerCatch(Emit(ctx, Ev("requirementRepo.findOne.failed", req.id, Undefined)),
                    "Error linking artifacts to requirement:", env)
  ELSE LET c0 == Emit(ctx, Ev("requirementRepo.findOne", req.id, Undefined))
       IN  IF req.id \notin DOMAIN ctx.reqs
           THEN Respond(logModification(c0, req.user, "LINK_ARTIFACTS_REQUIREMENT_NOT_FOUND",
                                        <<[k |-> "id", v |-> JStr(<<req.id>>)]>>, NoIp, env),
                        404, "Requirement not found")
           ELSE LET requirement == MergeLists(ctx.reqs[req.id], req)
                IN  SaveThen(c0, requirement, req, env,
                             "Error linking artifacts to requirement:",
                             "LINK_ARTIFACTS_TO_REQUIREMENT",
                             <<[k |-> "id", v |-> JStr(<<req.id>>)]>>
                             \o [i \in 1..Len(KindFields) |->
                                   [k |-> KindFields[i], v |-> JList(req.body[KindFields[i]])]])


Some(list, status) == \E i \in 1..Len(list) : list[i].status = status

\* variant: the row shows the stored flags only
ReportRow_StoredFlags(ctx, reqmt, env) ==
  LET tr == Maybe(ctx, reqmt.testCaseIds, env, "getTestResults")
      ds == Maybe(tr.c, reqmt.deploymentIds, env, "getDeploymentStatus")
  IN  Out(ds.c, [id |-> reqmt.id, title |-> reqmt.title, status |-> reqmt.status,
                 hasFailedTests |-> reqmt.hasFailedTests,
                 hasDeploymentRollback |-> reqmt.hasDeploymentRollback,
                 testResults |-> tr.out, deploymentStatus |-> ds.out])
ReportRow(ctx, reqmt, env) ==
  LET tr == Maybe(ctx, reqmt.testCaseIds, env, "getTestResults")
      ds == Maybe(tr.c, reqmt.deploymentIds, env, "getDeploymentStatus")
  IN  Out(ds.c, [id |-> reqmt.id, title |-> reqmt.title, status |-> reqmt.status,
                 hasFailedTests |-> reqmt.hasFailedTests \/ Some(tr.out, "failed"),
                 hasDeploymentRollback |->
                   reqmt.hasDeploymentRollback \/ Some(ds.out, "rollback"),
                 testResults |-> tr.out, deploymentStatus |-> ds.out])
\* variant: the flags computed for a row are saved to the requirement
RECURSIVE ReportAll_PersistsFlags(_, _, _)
ReportAll_PersistsFlags(ctx, reqmts, env) ==
  IF reqmts = <<>> THEN Out(ctx, <<>>)
  ELSE LET h     == ReportRow(ctx, Head(reqmts), env)
           saved == [h.c EXCEPT !.reqs =
                       RepoSave(@, [Head(reqmts) EXCEPT
                                      !.hasFailedTests = h.out.hasFailedTests,
                                      !.hasDeploymentRollback = h.out.hasDeploymentRollback])]
           r     == ReportAll_PersistsFlags(saved, Tail(reqmts), env)
       IN  Out(r.c, <<h.out>> \o r.out)
RECURSIVE ReportAll(_, _, _)
ReportAll(ctx, reqmts, env) ==
  IF reqmts = <<>> THEN Out(ctx, <<>>)
  ELSE LET h == ReportRow(ctx, Head(reqmts), env)
           r == ReportAll(h.c, Tail(reqmts), env)
       IN  Out(r.c, <<h.out>> \o r.out)

reportHandler(ctx, req, env) ==
  IF ~env.findOk
  THEN HandlerCatch(Emit(ctx, Ev("requirementRepo.find.failed", "", Undefined)),
                    "Error generating traceability report:", env)
  ELSE LET c0 == Emit(ctx, Ev("requirementRepo.find", "", Undefined))
           r  == ReportAll(c0, FindAll(ctx), env)
           c1 == logAccess(r.c, req.user, "GET_TRACEABILITY_REPORT",
                           <<[k |-> "count", v |-> JNum(Len(ReqOrder))]>>, NoIp, env)
       IN  Respond(c1, 200, r.out)
\* variant: a flag that is not supplied as a boolean is reset
SetFlag_FullReplace(stored, v) == IF v.t = "bool" THEN v.b ELSE FALSE
\* if (typeof v === 'boolean') requirement.flag = v
SetFlag(stored, v) == IF v.t = "bool" THEN v.b ELSE stored
\* variant: a stored flag is only ever raised
flagsHandler_StickyFlags(ctx, req, env) ==
  IF ~env.findOk
  THEN HandlerCatch(Emit(ctx, Ev("requirementRepo.findOne.failed", req.id, Undefined)),
                    "Error updating requirement flags:", env)
  ELSE LET c0 == Emit(ctx, Ev("requirementRepo.findOne", req.id, Undefined))
       IN  IF req.id \notin DOMAIN ctx.reqs
           THEN Respond(logModification(c0, req.user, "UPDATE_FLAGS_REQUIREMENT_NOT_FOUND",
                                        <<[k |-> "id", v |-> JStr(<<req.id>>)]>>, NoIp, env),
                        404, "Requirement not found")
           ELSE LET old == ctx.reqs[req.id]
                    requirement ==
                      [old EXCEPT !.hasFailedTests = @ \/ SetFlag(@, req.body.hasFailedTests),
                                  !.hasDeploymentRollback =
                                     @ \/ SetFlag(@, req.body.hasDeploymentRollback),
                                  !.updatedBy = OrElse(req.user.username, <<"system">>)]
                IN  SaveThen(c0, requirement, req, env,
                             "Error updating requirement flags:",
                             "UPDATE_REQUIREMENT_FLAGS",
                             <<[k |-> "id", v |-> JStr(<<req.id>>)],
                               [k |-> "hasFailedTests", v |-> req.body.hasFailedTests],
                               [k |-> "hasDeploymentRollback",
                                v |-> req.body.hasDeploymentRollback]>>)
flagsHandler(ctx, req, env) ==
  IF ~env.findOk
  THEN HandlerCatch(Emit(ctx, Ev("requirementRepo.findOne.failed", req.id, Undefined)),
                    "Error updating requirement flags:", env)
  ELSE LET c0 == Emit(ctx, Ev("requirementRepo.findOne", req.id, Undefined))
       IN  IF req.id \notin DOMAIN ctx.reqs
           THEN Respond(logModification(c0, req.user, "UPDATE_FLAGS_REQUIREMENT_NOT_FOUND",
                                        <<[k |-> "id", v |-> JStr(<<req.id>>)]>>, NoIp, env),
                        404, "Requirement not found")
           ELSE LET old == ctx.reqs[req.id]
                    requirement ==
                      [old EXCEPT !.hasFailedTests = SetFlag(@, req.body.hasFailedTests),
                                  !.hasDeploymentRollback =
                                     SetFlag(@, req.body.hasDeploymentRollback),
                                  !.updatedBy = OrElse(req.user.username, <<"system">>)]
                IN  SaveThen(c0, requirement, req, env,
                             "Error updating requirement flags:",
                             "UPDATE_REQUIREMENT_FLAGS",
                             <<[k |-> "id", v |-> JStr(<<req.id>>)],
                               [k |-> "hasFailedTests", v |-> req.body.hasFailedTests],
                               [k |-> "hasDeploymentRollback",
                                v |-> req.body.hasDeploymentRollback]>>)

-----------------------------------------------------------------------------
(* auditlog.service: exportLogs *)

\* variant: order ASC
RECURSIVE SortDesc_Ascending(_)
SortDesc_Ascending(logs) ==
  IF logs = <<>> THEN <<>>
  ELSE LET rest == SortDesc_Ascending(Tail(logs))
           h    == Head(logs)
           k    == Cardinality({i \in 1..Len(rest) : rest[i].timestamp < h.timestamp})
       IN  SubSeq(rest, 1, k) \o <<h>> \o SubSeq(rest, k + 1, Len(rest))

\* auditRepo.find({ order: { timestamp: 'DESC' } })
RECURSIVE SortDesc(_)
SortDesc(logs) ==
  IF logs = <<>> THEN <<>>
  ELSE LET rest == SortDesc(Tail(logs))
           h    == Head(logs)
           k    == Cardinality({i \in 1..Len(rest) : rest[i].timestamp > h.timestamp})
       IN  SubSeq(rest, 1, k) \o <<h>> \o SubSeq(rest, k + 1, Len(rest))

\* timestamp.toISOString()
IsoString(t) == <<"T" \o ToString(t)>>

RoleText(role) == IF role = "#undefined" THEN Undefined ELSE <<role>>

IpText(ip) == IF ip = NoIp THEN Undefined ELSE <<ip>>

\* String.prototype.replace(/"/g, '""')
RECURSIVE DoubleQuotes(_)
DoubleQuotes(text) ==
  IF text = <<>> THEN <<>>
  ELSE (IF Head(text) = Quote THEN <<Quote, Quote>> ELSE <<Head(text)>>)
       \o DoubleQuotes(Tail(text))

\* the template literal of one CSV row: only details has its quotes doubled
CsvRow(log) ==
  LET q(text) == <<Quote>> \o text \o <<Quote>>
  IN  Join(<<q(<<ToString(log.id)>>),
             q(<<log.action>>),
             q(OrElse(log.username, <<>>)),
             q(OrElse(RoleText(log.role), <<>>)),
             q(DoubleQuotes(OrElse(log.details, <<>>))),
             q(OrElse(IpText(log.ip), <<>>)),
             q(IsoString(log.timestamp))>>, <<Comma>>)

CsvColumns == <<"id", "action", "username", "role", "details", "ip", "timestamp">>

CsvHeader == Join([i \in 1..Len(CsvColumns) |-> <<CsvColumns[i]>>], <<Comma>>)

\* JSON.stringify(logs, null, 2), indentation left out: an array of objects
\* whose undefined properties are dropped and whose Date is an ISO string
JsonLogText(log) ==
  JsonStringify(<<[k |-> "id",        v |-> JStr(<<ToString(log.id)>>)],
                  [k |-> "action",    v |-> JStr(<<log.action>>)],
                  [k |-> "username",  v |-> IF log.username = Undefined THEN JUndef
                                            ELSE JStr(log.username)],
                  [k |-> "role",      v |-> IF log.role = "#undefined" THEN JUndef
                                            ELSE JStr(<<log.role>>)],
                  [k |-> "details",   v |-> IF log.details = Undefined THEN JUndef
                                            ELSE JStr(log.details)],
                  [k |-> "ip",        v |-> IF log.ip = NoIp THEN JUndef
                                            ELSE JStr(<<log.ip>>)],
                  [k |-> "timestamp", v |-> JStr(IsoString(log.timestamp))]>>)

\* what the exported JSON text denotes: per entry its defined properties
JsonLog(log) ==
  {<<"id", <<ToString(log.id)>>>>, <<"action", <<log.action>>>>,
   <<"timestamp", IsoString(log.timestamp)>>}
  \cup (IF log.username = Undefined THEN {} ELSE {<<"username", log.username>>})
  \cup (IF log.role = "#undefined" THEN {} ELSE {<<"role", <<log.role>>>>})
  \cup (IF log.details = Undefined THEN {} ELSE {<<"details", log.details>>})
  \cup (IF log.ip = NoIp THEN {} ELSE {<<"ip", <<log.ip>>>>})

Exported(text, array) == [text |-> text, json |-> array]
\* variant: the catch block logs the failed read and rethrows it
exportLogs_Rethrows(ctx, format, env) ==
  IF ~env.auditOk
  THEN [Emit(LoggerWrite(Emit(ctx, Ev("auditRepo.find.failed", format, Undefined)), "error",
                         "AuditLogService.exportLogs error:", Undefined, env.diagOk),
             Ev("throw", "exportLogs", Undefined))
          EXCEPT !.body = Exported(Undefined, <<>>)]
  ELSE [Emit(ctx, Ev("auditRepo.find", format, Undefined))
          EXCEPT !.body = Exported(<<"[">> \o <<"]">>, <<>>)]
exportLogs(ctx, format, env) ==
  IF ~env.auditOk
  THEN [LoggerWrite(Emit(ctx, Ev("auditRepo.find.failed", format, Undefined)), "error",
                    "AuditLogService.exportLogs error:", Undefined, env.diagOk)
          EXCEPT !.body = Exported(<<>>, <<>>)]
  ELSE LET logs == SortDesc(ctx.store)
           c0   == Emit(ctx, Ev("auditRepo.find", format, Undefined))
       IN  IF format = "csv"
           THEN [c0 EXCEPT !.body =
                   Exported(Join(<<CsvHeader>> \o [i \in 1..Len(logs) |-> CsvRow(logs[i])],
                                 <<Newline>>), <<>>)]
           ELSE [c0 EXCEPT !.body =
                   Exported(<<"[">>
                            \o Join([i \in 1..Len(logs) |-> JsonLogText(logs[i])], <<Comma>>)
                            \o <<"]">>,
                            [i \in 1..Len(logs) |-> JsonLog(logs[i])])]

-----------------------------------------------------------------------------
(* Inputs of the model *)

\* a username with an embedded double quote: j"r
Jr == [username |-> <<"j", Quote, "r">>, role |-> "viewer"]

RouteUsers == {Jr, NoUser}

ArtifactIds == {"a", "b"}

NoLists == [f \in Range(KindFields) |-> Undefined]

LinkBodies ==
  { NoLists,
    [NoLists EXCEPT !.userStoryIds = <<"a", "b", "b">>],
    [NoLists EXCEPT !.deploymentIds = <<"b">>, !.taskIds = <<>>,
                    !.testCaseIds = <<"b", "a">>] }

FlagBodies ==
  { [hasFailedTests |-> JBool(TRUE),       hasDeploymentRollback |-> JUndef],
    [hasFailedTests |-> JBool(FALSE),      hasDeploymentRollback |-> JBool(TRUE)],
    [hasFailedTests |-> JStr(<<"yes">>),   hasDeploymentRollback |-> JBool(FALSE)] }

DownPairs == { <<"getUserStories", "a">>, <<"getDeployments", "a">>,
               <<"getDeploymentStatus", "b">> }

Results == { [id \in ArtifactIds |-> "SUCCESS"],
             [id \in ArtifactIds |-> IF id = "a" THEN "FAILURE" ELSE "SUCCESS"],
             [id \in ArtifactIds |-> IF id = "a" THEN "ABORTED" ELSE "SUCCESS"] }

Rands == { {}, {"b"} }

Bit(ok) == IF ok THEN 0 ELSE 1

\* the deviations of one request's environment from the nominal one: a
\* collaborator that fails, an upstream GET that rejects, a build that did not
\* end in SUCCESS, a test run reported as failed
Faults(env) ==
  Bit(env.auditOk) + Bit(env.diagOk) + Bit(env.findOk) + Bit(env.saveOk)
  + Cardinality(env.down) + Cardinality(env.rand)
  + Bit(\A id \in ArtifactIds : env.result[id] = "SUCCESS")

Envs ==
  { env \in [auditOk : BOOLEAN, diagOk : BOOLEAN, findOk : BOOLEAN, saveOk : BOOLEAN,
             down : SUBSET DownPairs, result : Results, rand : Rands] :
      Faults(env) <= MaxFaults }

InitRequirements ==
  [id \in Range(ReqOrder) |->
     IF id = "r1"
     THEN [id |-> "r1", title |-> "Login", status |-> "Approved",
           userStoryIds |-> <<"a">>, taskIds |-> Undefined, testCaseIds |-> <<"a", "b">>,
           codeCommitIds |-> <<>>, deploymentIds |-> <<"a">>,
           hasFailedTests |-> FALSE, hasDeploymentRollback |-> FALSE,
           updatedBy |-> Undefined]
     ELSE [id |-> "r2", title |-> "Export", status |-> "Draft",
           userStoryIds |-> Undefined, taskIds |-> Undefined, testCaseIds |-> Undefined,
           codeCommitIds |-> Undefined, deploymentIds |-> Undefined,
           hasFailedTests |-> TRUE, hasDeploymentRollback |-> FALSE,
           updatedBy |-> Undefined]]


\* authorize is exercised with one caller per role, two roles outside the
\* table ("constructor" names an inherited member of it) and no caller at all
AuthUsers ==
  { [username |-> <<r>>, role |-> r] : r \in UserRole \cup {"guest", "constructor"} } \cup {NoUser}

\* "purge" is a token that no role enumerates
TokenOrder == <<"view", "link", "report", "flag", "export", "audit", "purge">>

RequiredLists ==
  { SelectSeq(TokenOrder, LAMBDA t : t \in S) :
      S \in {T \in SUBSET Range(TokenOrder) : Cardinality(T) <= MaxRequired} }

\* environments of the requests that make no upstream call
DbEnvs ==
  { env \in Envs : env.down = {} /\ env.rand = {}
                   /\ \A id \in ArtifactIds : env.result[id] = "SUCCESS" }

\* environments of the operations that touch the audit sinks only
AuditEnvs == { env \in DbEnvs : env.findOk /\ env.saveOk }

\* environments of the requests that read requirements and call upstream
ReadEnvs == { env \in Envs : env.saveOk }

\* a request without a user is answered by ensureAuthenticated before any
\* handler runs: only the audit sinks are in its reach
EnvsOf(user, envs) == IF user = NoUser THEN AuditEnvs ELSE envs

-----------------------------------------------------------------------------
(* The state machine *)

\* the callers of two link requests served at the same time
Callers == {"first", "second"}

\* the second caller's user object carries a role and no username
CallerUser(c) ==
  IF c = "first" THEN Jr ELSE [username |-> Undefined, role |-> "developer"]

NoEntity == <<>>

NoneInFlight ==
  [calls |-> [c \in Callers |-> [phase |-> "none", body |-> NoLists, entity |-> NoEntity]],
   saves |-> <<>>]

Idle == [op |-> "none", user |-> NoUser, id |-> "", body |-> <<>>, required |-> <<>>,
         status |-> 0, out |-> <<>>, events |-> <<>>]

Init ==
  /\ requirements = InitRequirements
  /\ auditStore = <<>>
  /\ now = 0
  /\ nreq = 0
  /\ last = Idle
  /\ fanout = NoCall
  /\ inflight = NoneInFlight

Ctx == [store |-> auditStore, clock |-> now, reqs |-> requirements,
        events |-> <<>>, status |-> 0, body |-> <<>>]

Request(user, id, body) ==
  [user |-> user, id |-> id, body |-> body, ip |-> "10.0.0.7", url |-> <<"/api/traceability">>]

Commit(op, req, required, c) ==
  /\ requirements' = c.reqs
  /\ auditStore' = c.store
  /\ now' = c.clock
  /\ nreq' = nreq + 1
  /\ last' = [op |-> op, user |-> req.user, id |-> req.id, body |-> req.body,
              required |-> required, status |-> c.status, out |-> c.body,
              events |-> c.events]
  /\ UNCHANGED <<fanout, inflight>>

\* app.use('/api/traceability', authMiddleware, traceabilityRouter)
RouteRun(op, req, env) ==
  LET c == authMiddleware(Ctx, req, env)
  IN  IF ~CalledNext(c) THEN c
      ELSE CASE op = "getMatrix"      -> matrixHandler(c, req, env)
             [] op = "getRequirement" -> requirementHandler(c, req, env)
             [] op = "linkArtifacts"  -> linkHandler(c, req, env)
             [] op = "generateReport" -> reportHandler(c, req, env)
             [] op = "updateFlags"    -> flagsHandler(c, req, env)

Route(op, req, env) ==
  /\ nreq < MaxRequests
  /\ Commit(op, req, <<>>, RouteRun(op, req, env))

GetMatrix(user, env) ==
  Route("getMatrix", Request(user, "", <<>>), env)

GetRequirement(user, id, env) ==
  Route("getRequirement", Request(user, id, <<>>), env)

LinkArtifacts(user, id, body, env) ==
  Route("linkArtifacts", Request(user, id, body), env)

GenerateReport(user, env) ==
  Route("generateReport", Request(user, "", <<>>), env)

UpdateFlags(user, id, body, env) ==
  Route("updateFlags", Request(user, id, body), env)

\* auditLogService.exportLogs(format), called by the audit log export endpoint
ExportLogs(format, env) ==
  LET c == exportLogs(Ctx, format, env)
  IN  /\ last' = [Idle EXCEPT !.op = "exportLogs", !.id = format,
                              !.out = c.body, !.events = c.events]
      /\ UNCHANGED <<requirements, auditStore, now, nreq, fanout, inflight>>

\* a request passed through authorize(requiredPermissions)
Authorize(user, requiredPermissions, env) ==
  /\ nreq < MaxAuthRequests
  /\ Commit("authorize", Request(user, "", <<>>), requiredPermissions,
            authorize(requiredPermissions, Ctx, Request(user, "", <<>>), env))

Next ==
  \/ \E user \in RouteUsers : \E env \in EnvsOf(user, ReadEnvs) : GetMatrix(user, env)
  \/ \E user \in RouteUsers, id \in {"r1", "r9"} : \E env \in EnvsOf(user, ReadEnvs) :
       GetRequirement(user, id, env)
  \/ \E user \in RouteUsers, id \in {"r1", "r9"}, body \in LinkBodies :
       \E env \in EnvsOf(user, DbEnvs) : LinkArtifacts(user, id, body, env)
  \/ \E user \in RouteUsers : \E env \in EnvsOf(user, ReadEnvs) : GenerateReport(user, env)
  \/ \E user \in RouteUsers, id \in {"r2", "r9"}, body \in FlagBodies :
       \E env \in EnvsOf(user, DbEnvs) : UpdateFlags(user, id, body, env)
  \/ \E format \in {"json", "csv"}, env \in AuditEnvs : ExportLogs(format, env)

Spec == Init /\ [][Next]_vars

NextAuthorize ==
  \E user \in AuthUsers, required \in RequiredLists, env \in AuditEnvs :
    Authorize(user, required, env)

SpecAuthorize == Init /\ [][NextAuthorize]_vars

\* the methods that fan out one GET per identifier
FanMethods == {"getUserStories", "getTasks", "getCodeCommits", "getDeployments",
               "getDeploymentStatus"}

RECURSIVE SeqsUpTo(_, _)
SeqsUpTo(S, n) ==
  IF n = 0 THEN {<<>>}
  ELSE LET shorter == SeqsUpTo(S, n - 1)
       IN  shorter \cup {Append(q, x) : q \in {p \in shorter : Len(p) = n - 1}, x \in S}

IdLists == SeqsUpTo(ArtifactIds, MaxIds)

\* environments of one call of a method: any subset of its GETs rejects
FanEnvs(method) ==
  { [auditOk |-> TRUE, diagOk |-> d, findOk |-> TRUE, saveOk |-> TRUE,
     down |-> {<<method, id>> : id \in S}, result |-> r, rand |-> {}] :
      d \in BOOLEAN, S \in SUBSET ArtifactIds, r \in Results }

CallFanOut(method, ids, env) ==
  /\ fanout.phase = "idle"
  /\ fanout' = StartFanOut(method, ids, env)
  /\ UNCHANGED <<requirements, auditStore, now, nreq, last, inflight>>

ResponseArrives(i) ==
  /\ i \in fanout.pending
  /\ fanout' = Settle(fanout, i)
  /\ UNCHANGED <<requirements, auditStore, now, nreq, last, inflight>>

NextFanOut ==
  \/ \E method \in FanMethods, ids \in IdLists : \E env \in FanEnvs(method) :
       CallFanOut(method, ids, env)
  \/ \E i \in 1..MaxIds : ResponseArrives(i)

SpecFanOut == Init /\ [][NextFanOut]_vars

\* Two link requests on requirement r1 served at the same time. Each handler
\* is suspended at `await findOne` and at `await save`; between the two the
\* merge runs on the entity the request loaded.
\* POST /requirement/r1/link arrives and passes authMiddleware
ReceiveLink(c, body) ==
  /\ inflight.calls[c].phase = "none"
  /\ inflight' = [inflight EXCEPT !.calls[c].phase = "received", !.calls[c].body = body]
  /\ UNCHANGED <<requirements, auditStore, now, nreq, last, fanout>>

\* findOne resolves with the row as it is now; the handler merges into it
LoadRequirement(c) ==
  /\ inflight.calls[c].phase = "received"
  /\ inflight' = [inflight EXCEPT
                    !.calls[c].phase = "loaded",
                    !.calls[c].entity =
                       MergeLists(requirements["r1"],
                                  Request(CallerUser(c), "r1", inflight.calls[c].body))]
  /\ UNCHANGED <<requirements, auditStore, now, nreq, last, fanout>>

\* save resolves; the handler audits the modification and answers 200
SaveRequirement(c) ==
  /\ inflight.calls[c].phase = "loaded"
  /\ requirements' = RepoSave(requirements, inflight.calls[c].entity)
  /\ inflight' = [inflight EXCEPT !.calls[c].phase = "saved", !.saves = Append(@, c)]
  /\ UNCHANGED <<auditStore, now, nreq, last, fanout>>

NextOverlap ==
  \/ \E c \in Callers, body \in LinkBodies : ReceiveLink(c, body)
  \/ \E c \in Callers : LoadRequirement(c)
  \/ \E c \in Callers : SaveRequirement(c)

SpecOverlap == Init /\ [][NextOverlap]_vars

-----------------------------------------------------------------------------
(* Properties: access control *)

HasEvent(events, kind) == \E i \in 1..Len(events) : events[i].e = kind

RouteOps == {"getMatrix", "getRequirement", "linkArtifacts", "generateReport", "updateFlags"}

\* the permission tokens the design requires per operation
RequiredFor(op) ==
  CASE op = "getMatrix"      -> <<"view">>
    [] op = "getRequirement" -> <<"view">>
    [] op = "linkArtifacts"  -> <<"link">>
    [] op = "generateReport" -> <<"view", "report">>
    [] op = "updateFlags"    -> <<"flag">>
    [] OTHER                 -> <<>>

DataEvents == {"requirementRepo.find", "requirementRepo.find.failed",
               "requirementRepo.findOne", "requirementRepo.findOne.failed",
               "requirementRepo.save", "requirementRepo.save.failed", "GET"}

TouchesData(events) == \E i \in 1..Len(events) : events[i].e \in DataEvents

LacksPermission(user, required) ==
  /\ user # NoUser
  /\ ~InheritedMember(user.role)
  /\ ~Includes(PermissionsOf(user.role), "*")
  /\ ~HasPermission(PermissionsOf(user.role), required)

\* C1: a request of an authenticated caller whose role lacks a token required
\* for the operation ends 403 and touches neither the requirements table nor
\* an upstream source.
C1_DeniedBeforeDataAccess ==
  (last.op \in RouteOps /\ LacksPermission(last.user, RequiredFor(last.op)))
    => (last.status = 403 /\ ~TouchesData(last.events))

AuditAttempts(events) ==
  {i \in 1..Len(events) : events[i].e \in {"auditRepo.save", "auditRepo.save.failed"}}

\* the permission check was reached and did not let the caller through
DeniesAuthenticated(l) ==
  /\ l.op = "authorize" /\ l.user # NoUser /\ ~InheritedMember(l.user.role)
  /\ ~HasEvent(l.events, "next()")

IsDenialEntry(entry, user) ==
  /\ entry.action = "UNAUTHORIZED_ACCESS"
  /\ entry.username = user.username
  /\ entry.role = user.role

\* C2 (as stated): every denial of an authenticated caller by authorize adds
\* exactly one UNAUTHORIZED_ACCESS entry with the caller's username and role
\* to the audit table, answers 403 and does not call next.
C2_DenialAlwaysRecorded ==
  [][(nreq' # nreq /\ DeniesAuthenticated(last'))
       => /\ last'.status = 403
          /\ Len(auditStore') = Len(auditStore) + 1
          /\ IsDenialEntry(auditStore'[Len(auditStore')], last'.user)]_vars

\* C2 (amended): every denial of an authenticated caller by authorize makes
\* exactly one audit write, for an UNAUTHORIZED_ACCESS entry with the caller's
\* username; the entry, with username and role, is appended to the audit table
\* when that write succeeds and nothing is appended when it fails; the answer
\* is 403 and next is not called.
C2_DenialAudited ==
  [][(nreq' # nreq /\ DeniesAuthenticated(last'))
       => LET ev == last'.events
              at == AuditAttempts(ev)
          IN  /\ last'.status = 403
              /\ Cardinality(at) = 1
              /\ \A i \in at : ev[i].a = "UNAUTHORIZED_ACCESS" /\ ev[i].u = last'.user.username
              /\ IF HasEvent(ev, "auditRepo.save")
                 THEN /\ Len(auditStore') = Len(auditStore) + 1
                      /\ SubSeq(auditStore', 1, Len(auditStore)) = auditStore
                      /\ IsDenialEntry(auditStore'[Len(auditStore')], last'.user)
                 ELSE auditStore' = auditStore]_vars

C2_Witness ==
  /\ DeniesAuthenticated(last)
  /\ last.user.role = "viewer" /\ last.required = <<"link">>
  /\ last.status = 403
  /\ Len(auditStore) = 1 /\ IsDenialEntry(auditStore[1], last.user)

\* C3: authorize without a caller answers 401 whatever the required
\* permissions are, the empty list included, and never calls next.
C3_AbsentCallerUnauthenticated ==
  (last.op = "authorize" /\ last.user = NoUser)
    => (last.status = 401 /\ ~HasEvent(last.events, "next()"))

C3_Witness ==
  /\ last.op = "authorize" /\ last.user = NoUser /\ last.required = <<>>
  /\ last.status = 401

\* C4: for the five roles without the wildcard, authorize calls next exactly
\* when every required token is in the role's row of the permission table,
\* and answers 403 otherwise.
C4_GrantsExactlyTheTable ==
  (last.op = "authorize" /\ last.user.role \in UserRole \ {"admin"})
    => LET row     == Range(rolePermissions[last.user.role])
           allowed == Range(last.required) \subseteq row
       IN  /\ HasEvent(last.events, "next()") <=> allowed
           /\ allowed => last.status = 0
           /\ ~allowed => last.status = 403

C4_Witness ==
  /\ last.op = "authorize" /\ last.user.role = "developer"
  /\ last.required = <<"view", "flag">>
  /\ last.status = 403

\* C5: the administrator, whose role holds the wildcard, is let through for
\* every required list, tokens that no role enumerates included, and no audit
\* write is made for it.
C5_WildcardAllowsAll ==
  (last.op = "authorize" /\ last.user.role = "admin")
    => /\ HasEvent(last.events, "next()")
       /\ last.status = 0
       /\ AuditAttempts(last.events) = {}

C5_Witness ==
  /\ last.op = "authorize" /\ last.user.role = "admin"
  /\ Includes(last.required, "purge")
  /\ HasEvent(last.events, "next()")

-----------------------------------------------------------------------------
(* Properties: audit recording *)

\* the states in which a request is compared with a variation of itself:
\* those reached by at most MaxProbeDepth requests. An export changes nothing
\* that a request reads, so the state after an export is covered by the
\* state before it.
Probed == nreq <= MaxProbeDepth /\ last.op # "exportLogs"

AuditDown(env) == [env EXCEPT !.auditOk = FALSE]

AuditUp(envs) == { env \in envs : env.auditOk }

\* the same request served with the audit table up and with it down
SameOutcome(op, req, env) ==
  LET up   == RouteRun(op, req, env)
      down == RouteRun(op, req, AuditDown(env))
  IN  /\ up.status = down.status
      /\ up.body = down.body
      /\ up.reqs = down.reqs
      /\ HasEvent(down.events, "next(error)") <=> HasEvent(up.events, "next(error)")
      /\ HasEvent(down.events, "res")

\* C6: in every state reached by at most MaxProbeDepth requests, each of the
\* five operations, for each caller, input and environment, gives the same
\* response, the same stored requirements and the same use of next(error)
\* when the audit table rejects the write as when it accepts it, and the
\* request is always answered.
C6_AuditFailOpen ==
  Probed =>
    \A user \in RouteUsers :
      /\ \A env \in AuditUp(EnvsOf(user, ReadEnvs)) :
           /\ SameOutcome("getMatrix", Request(user, "", <<>>), env)
           /\ SameOutcome("generateReport", Request(user, "", <<>>), env)
           /\ \A id \in {"r1", "r9"} :
                SameOutcome("getRequirement", Request(user, id, <<>>), env)
      /\ \A env \in AuditUp(EnvsOf(user, DbEnvs)) :
           /\ \A id \in {"r1", "r9"}, body \in LinkBodies :
                SameOutcome("linkArtifacts", Request(user, id, body), env)
           /\ \A id \in {"r2", "r9"}, body \in FlagBodies :
                SameOutcome("updateFlags", Request(user, id, body), env)

C6_Witness ==
  /\ last.op = "linkArtifacts" /\ last.status = 200
  /\ HasEvent(last.events, "auditRepo.save.failed")
  /\ ~HasEvent(last.events, "auditRepo.save")
  /\ requirements["r1"].userStoryIds = <<"a", "b">>

\* the diagnostic line that carries an audit entry of the given action
IsEntryLine(ev, action) ==
  /\ ev.e \in {"logger.info", "logger.warn"}
  /\ ev.a \in {"AuditLog: Access - " \o action, "AuditLog: Modification - " \o action,
               "AuditLog: Unauthorized access attempt"}

\* C7: when the write of an audit entry to the audit table fails while the
\* diagnostic stream is working (the error line of the failure reached it),
\* the entry itself is still emitted on the diagnostic stream.
C7_SinksIndependent ==
  \A i \in 1..Len(last.events) :
    (last.events[i].e = "auditRepo.save.failed" /\ HasEvent(last.events, "logger.error"))
      => \E j \in 1..Len(last.events) : IsEntryLine(last.events[j], last.events[i].a)

IsPrefix(s, t) == Len(s) <= Len(t) /\ SubSeq(t, 1, Len(s)) = s

\* C8: every step leaves the rows already in the audit table as they are:
\* the table after the step begins with the table before it.
C8_AppendOnly == [][IsPrefix(auditStore, auditStore')]_vars

C8_Witness ==
  /\ Len(auditStore) >= 2
  /\ last.op = "exportLogs"
  /\ \E i \in 1..Len(auditStore) : auditStore[i].action = "LINK_ARTIFACTS_TO_REQUIREMENT"
  /\ \E i \in 1..Len(auditStore) : auditStore[i].action = "UNAUTHORIZED_ACCESS"

\* the timestamp of the stored row that an exported object stands for
StoredTimestamp(obj) ==
  LET row == CHOOSE e \in Range(auditStore) : <<"id", <<ToString(e.id)>>>> \in obj
  IN  row.timestamp

ExportsAllDescending(array) ==
  /\ Len(array) = Len(auditStore)
  /\ \A e \in Range(auditStore) : \E i \in 1..Len(array) : array[i] = JsonLog(e)
  /\ \A i, j \in 1..Len(array) :
       i < j => StoredTimestamp(array[i]) >= StoredTimestamp(array[j])

\* C9 (as stated): every JSON export contains every row of the audit table,
\* ordered by timestamp descending.
C9_EveryExportComplete ==
  (last.op = "exportLogs" /\ last.id = "json") => ExportsAllDescending(last.out.json)

\* C9 (amended): every JSON export whose read of the audit table succeeds
\* contains every row of the table, ordered by timestamp descending.
C9_SuccessfulExportComplete ==
  (last.op = "exportLogs" /\ last.id = "json" /\ HasEvent(last.events, "auditRepo.find"))
    => ExportsAllDescending(last.out.json)

C9_Witness ==
  /\ last.op = "exportLogs" /\ last.id = "json"
  /\ HasEvent(last.events, "auditRepo.find")
  /\ Len(auditStore) = 2
  /\ Len(last.out.json) = 2
  /\ StoredTimestamp(last.out.json[1]) > StoredTimestamp(last.out.json[2])


\* what a CSV reader makes of a text that breaks the quoting rules
Malformed == <<<<"#malformed">>>>

\* RFC 4180 reader of one row: inside quotes a doubled quote is one quote
\* and a comma is data
RECURSIVE CsvScan(_, _, _, _, _)
CsvScan(text, i, mode, field, row) ==
  IF i > Len(text)
  THEN IF mode = "quoted" THEN Malformed ELSE Append(row, field)
  ELSE LET ch == text[i]
       IN  CASE mode = "start" ->
                  IF ch = Quote THEN CsvScan(text, i + 1, "quoted", <<>>, row)
                  ELSE IF ch = Comma THEN CsvScan(text, i + 1, "start", <<>>, Append(row, <<>>))
                  ELSE CsvScan(text, i + 1, "bare", <<ch>>, row)
             [] mode = "bare" ->
                  IF ch = Quote THEN Malformed
                  ELSE IF ch = Comma THEN CsvScan(text, i + 1, "start", <<>>, Append(row, field))
                  ELSE CsvScan(text, i + 1, "bare", Append(field, ch), row)
             [] mode = "quoted" ->
                  IF ch = Quote THEN CsvScan(text, i + 1, "closing", field, row)
                  ELSE CsvScan(text, i + 1, "quoted", Append(field, ch), row)
             [] OTHER ->
                  IF ch = Quote THEN CsvScan(text, i + 1, "quoted", Append(field, Quote), row)
                  ELSE IF ch = Comma THEN CsvScan(text, i + 1, "start", <<>>, Append(row, field))
                  ELSE Malformed

ParseCsvRow(text) == CsvScan(text, 1, "start", <<>>, <<>>)

\* the lines of an export, as split('\n') gives them
Lines(text) ==
  LET nl      == {i \in 1..Len(text) : text[i] = Newline}
      cut(k)  == IF k = 0 THEN 0
                 ELSE IF k > Cardinality(nl) THEN Len(text) + 1
                 ELSE CHOOSE p \in nl : Cardinality({q \in nl : q < p}) = k - 1
  IN  [k \in 1..(Cardinality(nl) + 1) |-> SubSeq(text, cut(k - 1) + 1, cut(k) - 1)]

ParseCsv(text) == [k \in 1..Len(Lines(text)) |-> ParseCsvRow(Lines(text)[k])]

\* the seven values of a row as text, undefined shown as the empty text
FieldValues(log) ==
  <<<<ToString(log.id)>>, <<log.action>>, OrElse(log.username, <<>>),
    OrElse(RoleText(log.role), <<>>), OrElse(log.details, <<>>),
    OrElse(IpText(log.ip), <<>>), IsoString(log.timestamp)>>

\* C10: the CSV export reads back, row by row, as the header followed by the
\* seven values of every audit row, newest first.
C10_CsvRoundTrip ==
  (last.op = "exportLogs" /\ last.id = "csv" /\ HasEvent(last.events, "auditRepo.find"))
    => LET logs == SortDesc(auditStore)
       IN  ParseCsv(last.out.text)
             = <<[i \in 1..Len(CsvColumns) |-> <<CsvColumns[i]>>]>>
               \o [i \in 1..Len(logs) |-> FieldValues(logs[i])]

-----------------------------------------------------------------------------
(* Properties: export failure *)

\* C11: an export whose read of the audit table fails, in either format,
\* returns the empty string, and nothing happens in the call besides the
\* failed read and the diagnostic line about it: no exception leaves it.
C11_FailedExportReturnsEmpty ==
  (last.op = "exportLogs" /\ HasEvent(last.events, "auditRepo.find.failed"))
    => /\ last.out.text = <<>>
       /\ \A i \in 1..Len(last.events) :
            last.events[i].e \in {"auditRepo.find.failed", "logger.error"}

C11_Witness ==
  /\ last.op = "exportLogs" /\ last.id = "csv"
  /\ HasEvent(last.events, "auditRepo.find.failed")
  /\ Len(auditStore) >= 1
  /\ last.out.text = <<>>

-----------------------------------------------------------------------------
(* Properties: aggregation *)

\* the records of a list in the order of the list
AllRecords(method, ids, env) == [i \in 1..Len(ids) |-> Normalize(method, ids[i], env)]

SomeFetchFails(method, ids, env) == \E i \in 1..Len(ids) : <<method, ids[i]>> \in env.down

\* C12: nothing is returned while responses are awaited, and whatever the
\* order in which the responses arrive, a call that has returned gives one
\* normalized record per identifier in the order of the list if no fetch
\* failed and the empty sequence if one did; it is what the method gives
\* taken as one step.
C12_AllOrNothing ==
  /\ fanout.phase # "returned" => fanout.out = <<>>
  /\ fanout.phase = "returned" =>
       /\ fanout.out = IF SomeFetchFails(fanout.method, fanout.ids, fanout.env)
                       THEN <<>>
                       ELSE AllRecords(fanout.method, fanout.ids, fanout.env)
       /\ fanout.out = FanOut(NoCall, fanout.method, fanout.ids, fanout.env).out

\* the first record was in its slot when the rejection of the second fetch
\* arrived: the record is not returned
C12_Witness ==
  /\ fanout.phase = "returned"
  /\ fanout.ids = <<"b", "a">>
  /\ fanout.arrived = <<1, 2>>
  /\ <<fanout.method, "a">> \in fanout.env.down
  /\ <<fanout.method, "b">> \notin fanout.env.down
  /\ fanout.slots[1].id = "b"
  /\ fanout.out = <<>>

\* the kinds whose source is reached by GET while enriching: the method, the
\* identifier list it is given and the list of the enriched view it fills
EnrichKinds ==
  { [method |-> "getUserStories", ids |-> "userStoryIds",  view |-> "userStories"],
    [method |-> "getTasks",       ids |-> "taskIds",       view |-> "tasks"],
    [method |-> "getCodeCommits", ids |-> "codeCommitIds", view |-> "codeCommits"],
    [method |-> "getDeployments", ids |-> "deploymentIds", view |-> "deployments"] }

ViewFields == {"requirement", "userStories", "tasks", "testCases", "codeCommits",
               "deployments"}

WithDown(env, method, id) == [env EXCEPT !.down = @ \cup {<<method, id>>}]

\* one enriched requirement without and with the failure of one kind
Isolated(without, with, kind, id) ==
  IF Includes(IdList(without.requirement[kind.ids]), id)
  THEN \A f \in ViewFields : with[f] = IF f = kind.view THEN <<>> ELSE without[f]
  ELSE with = without

\* the same read served without and with the GET of <<kind.method, id>> failing
IsolatedIn(op, req, env, kind, id) ==
  LET without == RouteRun(op, req, env)
      with    == RouteRun(op, req, WithDown(env, kind.method, id))
  IN  without.status = 200 =>
        /\ with.status = 200
        /\ ~HasEvent(with.events, "next(error)")
        /\ IF op = "getMatrix"
           THEN /\ Len(with.body) = Len(without.body)
                /\ \A i \in 1..Len(with.body) :
                     Isolated(without.body[i], with.body[i], kind, id)
           ELSE Isolated(without.body, with.body, kind, id)

\* environments in which the stores and the diagnostic stream work; upstream
\* fetches may fail and builds may have any result
UpstreamEnvs ==
  { env \in ReadEnvs : env.findOk /\ env.auditOk /\ env.diagOk /\ env.rand = {} }

LinkedSomewhere(kind, id) ==
  \E r \in DOMAIN requirements : Includes(IdList(requirements[r][kind.ids]), id)

\* C13: in every state reached by at most MaxProbeDepth requests, for each
\* environment in which getRequirement or getMatrix succeeds and each kind
\* fetched by GET, making the fetch of a linked identifier of that kind fail
\* leaves the request successful, empties the list of that kind in every
\* enriched requirement that links the identifier, and leaves every other
\* list as it was.
C13_FailureIsolatedPerKind ==
  Probed =>
    \A kind \in EnrichKinds, id \in ArtifactIds :
      LinkedSomewhere(kind, id) =>
        \A env \in UpstreamEnvs :
          /\ IsolatedIn("getMatrix", Request(Jr, "", <<>>), env, kind, id)
          /\ IsolatedIn("getRequirement", Request(Jr, "r1", <<>>), env, kind, id)

C13_Witness ==
  /\ last.op = "getRequirement" /\ last.status = 200
  /\ HasEvent(last.events, "GET")
  /\ Len(requirements["r1"].userStoryIds) = 2
  /\ last.out.userStories = <<>>
  /\ Len(last.out.deployments) = 1
  /\ Len(last.out.testCases) = 2

\* the seven methods of the integration service with the identifier list
\* each is given by the handlers
Methods ==
  { [method |-> "getUserStories",      ids |-> "userStoryIds"],
    [method |-> "getTasks",            ids |-> "taskIds"],
    [method |-> "getTestCases",        ids |-> "testCaseIds"],
    [method |-> "getCodeCommits",      ids |-> "codeCommitIds"],
    [method |-> "getDeployments",      ids |-> "deploymentIds"],
    [method |-> "getTestResults",      ids |-> "testCaseIds"],
    [method |-> "getDeploymentStatus", ids |-> "deploymentIds"] }

\* the methods a read operation calls
MethodsOf(op) ==
  IF op = "generateReport" THEN {"getTestResults", "getDeploymentStatus"}
  ELSE {"getUserStories", "getTasks", "getTestCases", "getCodeCommits", "getDeployments"}

\* the requirements a read operation went through
ReadBy(op, id) == IF op = "getRequirement" THEN <<id>> ELSE ReqOrder

RECURSIVE TotalLinked(_, _)
TotalLinked(field, ids) ==
  IF ids = <<>> THEN 0
  ELSE Len(IdList(requirements[Head(ids)][field])) + TotalLinked(field, Tail(ids))

Fetches(events, method) ==
  Cardinality({i \in 1..Len(events) : events[i].e = "GET" /\ events[i].a = method})

CallsNothing(ctx, r) == r.out = <<>> /\ r.c.events = ctx.events

\* C14: every read that found its requirements made, per method, as many
\* outbound calls as identifiers are linked, so none for a list that is
\* empty or absent, and none at all from the two placeholder methods; and
\* in every state reached by at most MaxProbeDepth requests, each of the
\* seven methods, called by a handler on an absent or an empty list or called
\* directly on an empty list, returns the empty list and makes no call.
C14_EmptyListNoCall ==
  /\ ( /\ last.op \in {"getMatrix", "getRequirement", "generateReport"}
       /\ last.status = 200 )
     => \A m \in Methods :
          Fetches(last.events, m.method)
            = IF m.method \in MethodsOf(last.op) \cap FanMethods
              THEN TotalLinked(m.ids, ReadBy(last.op, last.id))
              ELSE 0
  /\ Probed =>
       /\ \A m \in Methods, env \in AuditEnvs :
            /\ CallsNothing(Ctx, Maybe(Ctx, Undefined, env, m.method))
            /\ CallsNothing(Ctx, Maybe(Ctx, <<>>, env, m.method))
            /\ m.method \in FanMethods
                 => CallsNothing(Ctx, FanOut(Ctx, m.method, <<>>, env))
       /\ \A env \in AuditEnvs :
            /\ CallsNothing(Ctx, getTestCases(Ctx, <<>>, env))
            /\ CallsNothing(Ctx, getTestResults(Ctx, <<>>, env))

C14_Witness ==
  /\ last.op = "getMatrix" /\ last.status = 200
  /\ requirements["r1"].taskIds = <<>>
  /\ requirements["r1"].codeCommitIds = <<>>
  /\ requirements["r2"].userStoryIds = Undefined
  /\ last.out[1].tasks = <<>> /\ last.out[1].codeCommits = <<>>
  /\ last.out[2].userStories = <<>>
  /\ Fetches(last.events, "getUserStories") = 1
  /\ Fetches(last.events, "getDeployments") = 2
  /\ Fetches(last.events, "getTasks") = 0

-----------------------------------------------------------------------------
(* Properties: report *)

\* C15: in every report, each deployment status is either the success token
\* or "rollback", and a requirement with a deployment that did not succeed
\* is reported with hasDeploymentRollback.
C15_NonSuccessIsRollback ==
  (last.op = "generateReport" /\ last.status = 200) =>
    \A i \in 1..Len(last.out) :
      LET row == last.out[i]
      IN  /\ \A k \in 1..Len(row.deploymentStatus) :
               row.deploymentStatus[k].status \in {"SUCCESS", "rollback"}
          /\ (\E k \in 1..Len(row.deploymentStatus) :
                row.deploymentStatus[k].status # "SUCCESS") => row.hasDeploymentRollback

-----------------------------------------------------------------------------
(* Properties: linking and flags *)

NoDuplicates(s) == \A i, j \in 1..Len(s) : s[i] = s[j] => i = j

\* the elements of s at their first occurrence, in the order of s
RECURSIVE FirstOccurrences(_, _)
FirstOccurrences(s, k) ==
  IF k > Len(s) THEN <<>>
  ELSE IF \E j \in 1..(k - 1) : s[j] = s[k]
  THEN FirstOccurrences(s, k + 1)
  ELSE <<s[k]>> \o FirstOccurrences(s, k + 1)

\* existing identifiers first, then the submitted ones that are new
OrderedUnion(existing, ids) ==
  LET old == IdList(existing)
  IN  FirstOccurrences(old, 1)
        \o FirstOccurrences(SelectSeq(ids, LAMBDA x : \A i \in 1..Len(old) : old[i] # x), 1)

NominalEnv ==
  [auditOk |-> TRUE, diagOk |-> TRUE, findOk |-> TRUE, saveOk |-> TRUE, down |-> {},
   result |-> [id \in ArtifactIds |-> "SUCCESS"], rand |-> {}]

\* a step in which a link request is served and answered 200
Linked ==
  /\ nreq' = nreq + 1
  /\ last'.op = "linkArtifacts" /\ last'.status = 200

\* C16: after a link request answered 200, each supplied kind holds the
\* existing identifiers at their first occurrence followed by the new ones
\* in submission order, without duplicates; a kind that was not supplied is
\* as it was; and the same request served once more changes no list.
C16_LinkIsOrderedUnion ==
  [][Linked =>
       /\ \A i \in 1..Len(KindFields) :
            LET f      == KindFields[i]
                before == requirements[last'.id][f]
                after  == requirements'[last'.id][f]
            IN  IF last'.body[f] = Undefined THEN after = before
                ELSE /\ after = OrderedUnion(before, last'.body[f])
                     /\ NoDuplicates(after)
       /\ LET again == linkHandler([store |-> auditStore', clock |-> now',
                                    reqs |-> requirements', events |-> <<>>,
                                    status |-> 0, body |-> <<>>],
                                   Request(last'.user, last'.id, last'.body), NominalEnv)
          IN  \A i \in 1..Len(KindFields) :
                again.reqs[last'.id][KindFields[i]] = requirements'[last'.id][KindFields[i]]
    ]_vars

\* the second of two identical link requests, with a repeated identifier and
\* one that was linked before
C16_Witness ==
  /\ last.op = "linkArtifacts" /\ last.status = 200 /\ last.id = "r1"
  /\ last.body.userStoryIds = <<"a", "b", "b">>
  /\ requirements["r1"].userStoryIds = <<"a", "b">>
  /\ Len(auditStore) = 2
  /\ \A i \in 1..2 : auditStore[i].action = "LINK_ARTIFACTS_TO_REQUIREMENT"

FlagFields == {"hasFailedTests", "hasDeploymentRollback"}

\* a step in which a flags request is served and answered 200
FlagsUpdated ==
  /\ nreq' = nreq + 1
  /\ last'.op = "updateFlags" /\ last'.status = 200

\* C17: after a flags request answered 200, a flag for which the request
\* carries a boolean has that value, and a flag for which it carries no
\* value or a value that is not a boolean has its stored value; nothing else
\* of the requirement changes but updatedBy, and no other requirement changes.
C17_FlagsPartialUpdate ==
  [][FlagsUpdated =>
       /\ \A f \in FlagFields :
            requirements'[last'.id][f]
              = IF last'.body[f].t = "bool" THEN last'.body[f].b
                ELSE requirements[last'.id][f]
       /\ \A id \in DOMAIN requirements : \A g \in DOMAIN requirements[id] :
            (id # last'.id \/ g \notin FlagFields \cup {"updatedBy"})
              => requirements'[id][g] = requirements[id][g]
    ]_vars

\* the rollback flag set by an earlier request is kept by a request that
\* supplies hasFailedTests only
C17_Witness ==
  /\ last.op = "updateFlags" /\ last.status = 200 /\ last.id = "r2"
  /\ last.body.hasFailedTests = JBool(TRUE)
  /\ last.body.hasDeploymentRollback = JUndef
  /\ requirements["r2"].hasFailedTests
  /\ requirements["r2"].hasDeploymentRollback

\* C18: every row of a report is about the requirement at its place in the
\* table, carries one test result per linked test case, and has
\* hasFailedTests equal to (stored flag or some carried test result is
\* "failed") and hasDeploymentRollback equal to (stored flag or some carried
\* deployment status is "rollback").
C18_ReportFlagsAreDisjunctions ==
  (last.op = "generateReport" /\ last.status = 200) =>
    /\ Len(last.out) = Len(ReqOrder)
    /\ \A i \in 1..Len(last.out) :
         LET row    == last.out[i]
             stored == requirements[ReqOrder[i]]
         IN  /\ row.id = stored.id
             /\ Len(row.testResults) = Len(IdList(stored.testCaseIds))
             /\ \A k \in 1..Len(row.testResults) :
                  row.testResults[k].id = stored.testCaseIds[k]
             /\ row.hasFailedTests
                  = (stored.hasFailedTests
                     \/ \E k \in 1..Len(row.testResults) :
                          row.testResults[k].status = "failed")
             /\ row.hasDeploymentRollback
                  = (stored.hasDeploymentRollback
                     \/ \E k \in 1..Len(row.deploymentStatus) :
                          row.deploymentStatus[k].status = "rollback")

\* test cases a and b, a passed and b failed, stored flag false
C18_Witness ==
  /\ last.op = "generateReport" /\ last.status = 200
  /\ ~requirements["r1"].hasFailedTests
  /\ requirements["r1"].testCaseIds = <<"a", "b">>
  /\ last.out[1].testResults[1].status = "passed"
  /\ last.out[1].testResults[2].status = "failed"
  /\ last.out[1].hasFailedTests
  /\ ~last.out[1].hasDeploymentRollback

\* a step from the state after one report to the state after the next
ReportAfterReport ==
  /\ last.op = "generateReport" /\ last.status = 200
  /\ nreq' = nreq + 1
  /\ last'.op = "generateReport" /\ last'.status = 200

\* C19: of two reports generated one after the other, the later one shows
\* hasFailedTests for every requirement for which the earlier one showed it.
C19_ReportFlagsMonotonic ==
  [][ReportAfterReport =>
       \A i \in 1..Len(last.out) :
         last.out[i].hasFailedTests => last'.out[i].hasFailedTests
    ]_vars

-----------------------------------------------------------------------------
(* Properties: requirement not found *)

NotFoundTag(op) ==
  CASE op = "getRequirement" -> "GET_REQUIREMENT_TRACEABILITY_NOT_FOUND"
    [] op = "linkArtifacts"  -> "LINK_ARTIFACTS_REQUIREMENT_NOT_FOUND"
    [] op = "updateFlags"    -> "UPDATE_FLAGS_REQUIREMENT_NOT_FOUND"

\* a step in which the lookup of the requirement ran and resolved nothing
Unresolved ==
  /\ nreq' = nreq + 1
  /\ last'.op \in {"getRequirement", "linkArtifacts", "updateFlags"}
  /\ last'.id \notin DOMAIN requirements
  /\ HasEvent(last'.events, "requirementRepo.findOne")

IsNotFoundEntry(entry, l) ==
  /\ entry.action = NotFoundTag(l.op)
  /\ entry.username = l.user.username
  /\ entry.details = JsonStringify(<<[k |-> "id", v |-> JStr(<<l.id>>)]>>)

NothingFetchedOrSaved(events) ==
  /\ ~HasEvent(events, "GET")
  /\ ~HasEvent(events, "requirementRepo.save")
  /\ ~HasEvent(events, "requirementRepo.save.failed")

\* C20 (as stated): a getRequirement, linkArtifacts or updateFlags request
\* whose id does not resolve is answered 404, adds exactly one entry with the
\* not-found tag of the operation and the id to the audit table, fetches
\* nothing upstream, saves nothing and changes no requirement.
C20_NotFoundAlwaysRecorded ==
  [][Unresolved =>
       /\ last'.status = 404
       /\ Len(auditStore') = Len(auditStore) + 1
       /\ IsNotFoundEntry(auditStore'[Len(auditStore')], last')
       /\ NothingFetchedOrSaved(last'.events)
       /\ requirements' = requirements
    ]_vars

\* C20 (amended): such a request is answered 404, makes exactly one audit
\* write, for the not-found tag of the operation; the entry, with the id, is
\* appended to the audit table when that write succeeds and nothing is
\* appended when it fails; the request fetches nothing upstream, saves
\* nothing and changes no requirement.
C20_NotFoundAudited ==
  [][Unresolved =>
       LET ev == last'.events
           at == AuditAttempts(ev)
       IN  /\ last'.status = 404
           /\ Cardinality(at) = 1
           /\ \A i \in at : ev[i].a = NotFoundTag(last'.op)
           /\ IF HasEvent(ev, "auditRepo.save")
              THEN /\ Len(auditStore') = Len(auditStore) + 1
                   /\ SubSeq(auditStore', 1, Len(auditStore)) = auditStore
                   /\ IsNotFoundEntry(auditStore'[Len(auditStore')], last')
              ELSE auditStore' = auditStore
           /\ NothingFetchedOrSaved(ev)
           /\ requirements' = requirements
    ]_vars

C20_Witness ==
  /\ last.op = "getRequirement" /\ last.id = "r9" /\ last.status = 404
  /\ last.user = Jr
  /\ Len(auditStore) = 2
  /\ auditStore[1].action = "LINK_ARTIFACTS_REQUIREMENT_NOT_FOUND"
  /\ IsNotFoundEntry(auditStore[2], last)
  /\ requirements = InitRequirements

-----------------------------------------------------------------------------
(* Properties: course of a mutating request *)

Mutators == {"linkArtifacts", "updateFlags"}

SuccessTag(op) ==
  CASE op = "linkArtifacts"  -> "LINK_ARTIFACTS_TO_REQUIREMENT"
    [] op = "updateFlags"    -> "UPDATE_REQUIREMENT_FLAGS"
    [] op = "getMatrix"      -> "GET_TRACEABILITY_MATRIX"
    [] op = "getRequirement" -> "GET_REQUIREMENT_TRACEABILITY"
    [] op = "generateReport" -> "GET_TRACEABILITY_REPORT"

\* the places of the events of a kind in a trace
Places(events, kinds) == {i \in 1..Len(events) : events[i].e \in kinds}

Before(S, T) == \A i \in S, j \in T : i < j

SuccessAttempts(events, op) ==
  {i \in AuditAttempts(events) : events[i].a = SuccessTag(op)}

\* C21: a link or flags request is answered exactly once, after its load,
\* save and success audit write; the caller check precedes the load, the load
\* precedes the save and the save precedes the audit write of the success
\* entry; a request that attempts a save attempts one; when the save
\* fails the request is passed to the error handler and answered 500, and no
\* audit write of the success entry is made.
C21_MutatingRequestCourse ==
  last.op \in Mutators =>
    LET ev      == last.events
        passed  == Places(ev, {"next()"})
        loads   == Places(ev, {"requirementRepo.findOne", "requirementRepo.findOne.failed"})
        saved   == Places(ev, {"requirementRepo.save"})
        unsaved == Places(ev, {"requirementRepo.save.failed"})
        audits  == SuccessAttempts(ev, last.op)
    IN  /\ Cardinality(Places(ev, {"res"})) = 1
        /\ Before(loads \cup saved \cup unsaved \cup audits, Places(ev, {"res"}))
        /\ Before(passed, loads) /\ Before(loads, saved \cup unsaved)
        /\ Before(saved, audits)
        /\ loads # {} => passed # {}
        /\ saved \cup unsaved # {} => loads # {}
        /\ Cardinality(saved \cup unsaved) <= 1
        /\ audits # {} => saved # {}
        /\ unsaved # {} =>
             /\ audits = {}
             /\ last.status = 500
             /\ HasEvent(ev, "next(error)")
        /\ saved # {} => last.status = 200 /\ Cardinality(audits) = 1

C21_Witness ==
  /\ last.op = "updateFlags" /\ last.id = "r2"
  /\ HasEvent(last.events, "requirementRepo.save.failed")
  /\ last.status = 500
  /\ Len(auditStore) = 1
  /\ auditStore[1].action = "UPDATE_REQUIREMENT_FLAGS"

-----------------------------------------------------------------------------
(* Properties: overlapping link requests *)

\* C22: whatever the order of the loads and saves of two link requests on
\* r1, once a save has been made the stored requirement is the entity of the
\* request that saved last, as that request loaded and merged it, and no
\* other requirement has changed.
C22_LastWriteWins ==
  inflight.saves # <<>> =>
    /\ requirements["r1"] = inflight.calls[inflight.saves[Len(inflight.saves)]].entity
    /\ requirements["r2"] = InitRequirements["r2"]

\* both requests loaded before either saved: user story b, linked by the
\* request that saved first, is missing after the second save
C22_Witness ==
  /\ inflight.saves = <<"first", "second">>
  /\ inflight.calls["first"].body.userStoryIds = <<"a", "b", "b">>
  /\ inflight.calls["first"].entity.userStoryIds = <<"a", "b">>
  /\ inflight.calls["second"].body.deploymentIds = <<"b">>
  /\ inflight.calls["second"].entity.userStoryIds = <<"a">>
  /\ requirements["r1"].userStoryIds = <<"a">>
  /\ requirements["r1"].deploymentIds = <<"a", "b">>

-----------------------------------------------------------------------------
(* Properties: audit of successful operations *)

IsInfix(part, text) ==
  \E k \in 0..(Len(text) - Len(part)) : SubSeq(text, k + 1, k + Len(part)) = part

\* "key": as it stands in a JSON object
MemberKey(key) == <<Quote, key, Quote, ":">>

\* ["a","b"] as it stands in a JSON text
ArrayText(ids) ==
  <<"[">> \o Join([i \in 1..Len(ids) |-> <<Quote, ids[i], Quote>>], <<Comma>>) \o <<"]">>

\* the details name the requirement and carry each submitted list whole
CarriesSubmission(details, l) ==
  /\ IsInfix(MemberKey("id") \o <<Quote, l.id, Quote>>, details)
  /\ \A i \in 1..Len(KindFields) :
       LET f == KindFields[i]
       IN  IF l.body[f] = Undefined THEN ~IsInfix(MemberKey(f), details)
           ELSE IsInfix(MemberKey(f) \o ArrayText(l.body[f]), details)

IsLinkEntry(entry, l) ==
  /\ entry.action = "LINK_ARTIFACTS_TO_REQUIREMENT"
  /\ entry.username = l.user.username /\ entry.role = l.user.role
  /\ CarriesSubmission(entry.details, l)

\* C23 (as stated): a link request answered 200 has added one entry to the
\* audit table, the newest one, with the requirement id and every submitted
\* list as submitted.
C23_LinkAlwaysRecorded ==
  (last.op = "linkArtifacts" /\ last.status = 200) =>
    /\ Cardinality(Places(last.events, {"auditRepo.save"})) = 1
    /\ auditStore # <<>>
    /\ IsLinkEntry(auditStore[Len(auditStore)], last)

\* C23 (amended): a link request answered 200 has made one audit write, for
\* a LINK_ARTIFACTS_TO_REQUIREMENT entry; when the write succeeded the newest
\* entry of the audit table is that entry, with the requirement id and every
\* submitted list as submitted, and when it failed no entry was added.
C23_LinkAudited ==
  (last.op = "linkArtifacts" /\ last.status = 200) =>
    LET at == AuditAttempts(last.events)
    IN  /\ Cardinality(at) = 1
        /\ \A i \in at : last.events[i].a = "LINK_ARTIFACTS_TO_REQUIREMENT"
        /\ HasEvent(last.events, "auditRepo.save") =>
             /\ auditStore # <<>>
             /\ auditStore[Len(auditStore)].timestamp = now
             /\ IsLinkEntry(auditStore[Len(auditStore)], last)

\* user stories a, b, b submitted for r1, which has a linked already
C23_Witness ==
  /\ last.op = "linkArtifacts" /\ last.status = 200 /\ last.id = "r1"
  /\ last.body.userStoryIds = <<"a", "b", "b">>
  /\ HasEvent(last.events, "auditRepo.save")
  /\ IsInfix(<<Quote, "a", Quote, Comma, Quote, "b", Quote, Comma, Quote, "b", Quote>>,
             auditStore[Len(auditStore)].details)

DataWork(events) ==
  Places(events, {"requirementRepo.find", "requirementRepo.findOne",
                  "requirementRepo.save", "GET"})

\* C24: every request answered 200 made exactly one audit write, for the
\* success entry of its operation and with the caller's username, after all
\* its reads of requirements, upstream calls and its save and before the
\* response; the entry, when the write succeeded, has the caller's username
\* and role.
C24_AuditAfterWorkBeforeResult ==
  (last.op \in RouteOps /\ last.status = 200) =>
    LET ev == last.events
        at == AuditAttempts(ev)
    IN  /\ Cardinality(at) = 1
        /\ at = SuccessAttempts(ev, last.op)
        /\ \A i \in at : ev[i].u = last.user.username
        /\ DataWork(ev) # {}
        /\ Before(DataWork(ev), at)
        /\ Before(at, Places(ev, {"res"}))
        /\ HasEvent(ev, "auditRepo.save") =>
             /\ auditStore[Len(auditStore)].action = SuccessTag(last.op)
             /\ auditStore[Len(auditStore)].username = last.user.username
             /\ auditStore[Len(auditStore)].role = last.user.role

C24_Witness ==
  /\ last.op = "generateReport" /\ last.status = 200
  /\ Fetches(last.events, "getDeploymentStatus") = 2
  /\ HasEvent(last.events, "auditRepo.save")
  /\ auditStore[Len(auditStore)].action = "GET_TRACEABILITY_REPORT"
  /\ auditStore[Len(auditStore)].role = "viewer"

\* C25 (as stated): a caller whose role is not a key of rolePermissions is
\* treated as holding no permission: authorize answers 403 after one audit
\* write when something is required, calls next when nothing is required, and
\* in neither case raises an error.
C25_UnknownRoleIsEmptySet ==
  (last.op = "authorize" /\ last.user # NoUser
     /\ last.user.role \notin DOMAIN rolePermissions)
    => LET ev == last.events
       IN  /\ last.status # 500
           /\ ~HasEvent(ev, "logger.error") \/ HasEvent(ev, "auditRepo.save.failed")
           /\ last.required # <<>> =>
                /\ last.status = 403
                /\ ~HasEvent(ev, "next()")
                /\ Cardinality(AuditAttempts(ev)) = 1
                /\ \A i \in AuditAttempts(ev) : ev[i].a = "UNAUTHORIZED_ACCESS"
           /\ last.required = <<>> =>
                /\ HasEvent(ev, "next()")
                /\ last.status = 0
                /\ AuditAttempts(ev) = {}

\* C26: after a flags request answered 200, a flag for which the request
\* carries false is false in the table, whatever it was before; and a report
\* row shows a flag false when the stored flag is false and none of the
\* statuses the row carries for it is a failure, so a flag that was true in
\* the table can be reported false later.
C26_ExplicitFalseLowersFlag ==
  /\ (last.op = "updateFlags" /\ last.status = 200) =>
       \A f \in FlagFields :
         last.body[f] = JBool(FALSE) => ~requirements[last.id][f]
  /\ (last.op = "generateReport" /\ last.status = 200) =>
       \A i \in 1..Len(last.out) :
         LET row    == last.out[i]
             stored == requirements[ReqOrder[i]]
         IN  /\ (~stored.hasFailedTests
                   /\ \A k \in 1..Len(row.testResults) :
                        row.testResults[k].status # "failed")
                  => ~row.hasFailedTests
             /\ (~stored.hasDeploymentRollback
                   /\ \A k \in 1..Len(row.deploymentStatus) :
                        row.deploymentStatus[k].status # "rollback")
                  => ~row.hasDeploymentRollback

\* r2 starts with hasFailedTests true and no test case; a flags request has
\* lowered the flag and the report that follows shows it false
C26_Witness ==
  /\ InitRequirements["r2"].hasFailedTests
  /\ nreq = 2 /\ last.op = "generateReport" /\ last.status = 200
  /\ ~requirements["r2"].hasFailedTests
  /\ requirements["r2"].hasDeploymentRollback
  /\ last.out[2].id = "r2"
  /\ last.out[2].testResults = <<>>
  /\ ~last.out[2].hasFailedTests

-----------------------------------------------------------------------------
(* Properties: what the handlers leave alone *)

\* the kinds for which the body of a link request carries a list
SuppliedKinds(body) == {f \in Range(KindFields) : body[f] # Undefined}

\* C27: the entity a link request saves differs from the row it loaded in
\* the lists of the kinds its body supplies and in updatedBy at most: the
\* other lists, both flags, title and status are as loaded, and updatedBy is
\* the caller's username, or "system" when the caller has none; the save
\* stores that entity and changes no other requirement.
C27_LinkFrame ==
  [][\A c \in Callers :
       /\ (inflight.calls[c].phase = "received" /\ inflight'.calls[c].phase = "loaded") =>
            LET loaded == requirements["r1"]
                entity == inflight'.calls[c].entity
                body   == inflight.calls[c].body
                name   == CallerUser(c).username
            IN  /\ DOMAIN entity = DOMAIN loaded
                /\ \A g \in DOMAIN loaded :
                     g \notin SuppliedKinds(body) \cup {"updatedBy"}
                       => entity[g] = loaded[g]
                /\ entity.updatedBy = IF name = Undefined THEN <<"system">> ELSE name
       /\ (inflight.calls[c].phase = "loaded" /\ inflight'.calls[c].phase = "saved") =>
            /\ requirements'["r1"] = inflight.calls[c].entity
            /\ \A id \in DOMAIN requirements \ {"r1"} :
                 requirements'[id] = requirements[id]
    ]_vars

\* the caller without a username has linked deployment b and test cases:
\* the user stories, which the body does not supply, the flags, title and
\* status are those of the row, and updatedBy is "system"
C27_Witness ==
  /\ inflight.saves = <<"second">>
  /\ inflight.calls["second"].body.deploymentIds = <<"b">>
  /\ inflight.calls["second"].body.userStoryIds = Undefined
  /\ requirements["r1"].deploymentIds = <<"a", "b">>
  /\ requirements["r1"].taskIds = <<>>
  /\ requirements["r1"].userStoryIds = InitRequirements["r1"].userStoryIds
  /\ requirements["r1"].codeCommitIds = InitRequirements["r1"].codeCommitIds
  /\ requirements["r1"].title = "Login" /\ requirements["r1"].status = "Approved"
  /\ ~requirements["r1"].hasFailedTests /\ ~requirements["r1"].hasDeploymentRollback
  /\ requirements["r1"].updatedBy = <<"system">>

ReadOps == {"getMatrix", "getRequirement", "generateReport"}

\* C28: a matrix, requirement or report request, whatever its outcome, makes
\* no save on the requirements table and leaves every requirement, its two
\* flags included, as it was, also when the report classifies a failed test
\* or a rollback.
C28_ReadsLeaveRequirements ==
  [][(nreq' = nreq + 1 /\ last'.op \in ReadOps) =>
       /\ requirements' = requirements
       /\ Places(last'.events, {"requirementRepo.save", "requirementRepo.save.failed"}) = {}
    ]_vars

\* the report shows a rollback for r1, whose stored flag is still false
C28_Witness ==
  /\ last.op = "generateReport" /\ last.status = 200
  /\ last.out[1].id = "r1"
  /\ last.out[1].hasDeploymentRollback
  /\ Some(last.out[1].deploymentStatus, "rollback")
  /\ ~requirements["r1"].hasDeploymentRollback
  /\ requirements = InitRequirements

====
